---- MODULE Spec2Model ----
(***************************************************************************)
(* AquaGuard frontend: the canvas NetworkMap (viewport controller, hit     *)
(* test, draw loop), the Dashboard page that mounts it, and the Plotly     *)
(* layer builders (NetworkMap plotData, SandboxProcedural / SandboxUni-    *)
(* versal buildFigData).                                                   *)
(*                                                                         *)
(* Number representation.  JavaScript numbers are IEEE doubles; here they  *)
(* are fixed-point integers:                                               *)
(*   - transform.scale is held in hundredths (100 stands for 1.0), a       *)
(*     product is truncated to the hundredth (\div);                       *)
(*   - world coordinates are integers, bounds are held in hundredths of a  *)
(*     world unit (the 8% padding is then exact);                          *)
(*   - screen coordinates are integer pixels, the projection is truncated  *)
(*     to the hundredth of a pixel and then to the pixel;                  *)
(*   - Math.hypot(dx, dy) < d is compared as dx*dx + dy*dy < d*d.          *)
(***************************************************************************)
EXTENDS Integers, Sequences, FiniteSets, TLC

VARIABLES
    network,      \* Dashboard: useState(null), the parsed network or NoNet
    loading,      \* Dashboard: useState(false)
    error,        \* Dashboard: useState(null)
    inflight,     \* uploads started by handleUpload that have not settled
    transform,    \* NetworkMap: useState({x: 0, y: 0, scale: 1})
    shown,        \* the transform captured by the latest render (handler closures, canvas)
    pending,      \* transform updates queued since the latest render
    hoveredNode,  \* NetworkMap: useState(null)
    isDragging,   \* NetworkMap: useRef(false)
    lastMouse,    \* NetworkMap: useRef({x: 0, y: 0})
    rect,         \* bounding client rect of the canvas container
    canvas,       \* what the draw effect painted at the latest render
    gesture,      \* history: the pan gesture in progress (pointer-down position, transform then)
    lastMove,     \* history: the latest pointer-move handled
    scene,        \* inputs of a layer builder (network, predictions, ground truth, flags)
    figure,       \* the draw list the layer builder returned
    call,         \* a pure function of the map applied on its own: the function and its arguments
    result,       \* what that application returned
    dragOver,        \* FileUploader: useState(false)
    onUploadCalls,   \* history: the files FileUploader passed to onUpload, in order
    selectedNetwork, \* SandboxUniversal: useState('Net3.inp')
    uploading,       \* SandboxUniversal: useState(false)
    mutationFn,      \* SandboxUniversal: the selectedNetwork the rendered mutationFn closes over
    uploadReq,       \* SandboxUniversal: the uploadNetwork request awaited, or NoFile
    detectPending,   \* SandboxUniversal: detectMutation.isPending
    detectCalls,     \* history: the calls of detectZones, in order
    mode,            \* SandboxProcedural: useState('procedural')
    rows,            \* SandboxProcedural: useState(6)
    cols,            \* SandboxProcedural: useState(8)
    nSensors,        \* SandboxProcedural: useState(5)
    density,         \* SandboxProcedural: useState(0.3), in tenths
    selectedFile,    \* SandboxProcedural: useState('Net3.inp')
    realSensors,     \* SandboxProcedural: useState(8)
    procUploading,   \* SandboxProcedural: its own useState(false) named uploading
    procUploadReq,   \* SandboxProcedural: the uploadNetwork request awaited, or NoFile
    selectedLeaks,   \* SandboxProcedural: useState([])
    simMutation,     \* SandboxProcedural: the state of useMutation (status, variables, data)
    dispatching,     \* SandboxProcedural: useState({})
    audio,           \* SandboxProcedural: per target, where its latest dispatch stands and how many were started
    user,            \* AuthProvider: useState(() => stored user or null)
    localStorage,    \* the item 'aquaguard_user' of localStorage, or NoItem
    route,           \* the location of the router
    loginResult,     \* what the latest login() returned
    clock            \* new Date(): the number of logins so far

vars == <<network, loading, error, inflight, transform, shown, pending, hoveredNode,
          isDragging, lastMouse, rect, canvas, gesture, lastMove, scene, figure,
          call, result, dragOver, onUploadCalls, selectedNetwork, uploading, mutationFn,
          uploadReq, detectPending, detectCalls, mode, rows, cols, nSensors, density,
          selectedFile, realSensors, procUploading, procUploadReq, selectedLeaks,
          simMutation, dispatching, audio, user, localStorage, route, loginResult, clock>>

dashVars == <<network, loading, error, inflight>>
mapVars == <<transform, shown, pending, hoveredNode, isDragging, lastMouse, rect, canvas>>
histVars == <<gesture, lastMove>>
layerVars == <<scene, figure>>
callVars == <<call, result>>
uploaderVars == <<dragOver, onUploadCalls>>
universalVars == <<selectedNetwork, uploading, mutationFn, uploadReq, detectPending, detectCalls>>
paramVars == <<mode, rows, cols, nSensors, density, selectedFile, realSensors>>
simVars == <<procUploading, procUploadReq, selectedLeaks, simMutation>>
dispatchVars == <<dispatching, audio>>
authVars == <<user, localStorage, route, loginResult, clock>>
appVars == <<uploaderVars, universalVars, paramVars, simVars, dispatchVars, authVars>>

\* the voice-dispatch targets of the predictions shown
Targets == {"J1", "J2", "J3"}

NoFile == "none"
\* user is null or one object, the storage item absent or one string
NoUser == << >>
NoItem == << >>
NoResult == [success |-> FALSE, error |-> "not called"]
IdleMutation == [status |-> "idle", variables |-> "undefined", data |-> "undefined"]

\* the other pages of the application as first rendered, nobody logged in
AppIdle ==
    /\ dragOver = FALSE
    /\ onUploadCalls = << >>
    /\ selectedNetwork = "Net3.inp"
    /\ uploading = FALSE
    /\ mutationFn = "Net3.inp"
    /\ uploadReq = NoFile
    /\ detectPending = FALSE
    /\ detectCalls = << >>
    /\ mode = "procedural"
    /\ rows = 6
    /\ cols = 8
    /\ nSensors = 5
    /\ density = 3
    /\ selectedFile = "Net3.inp"
    /\ realSensors = 8
    /\ procUploading = FALSE
    /\ procUploadReq = NoFile
    /\ selectedLeaks = << >>
    /\ simMutation = IdleMutation
    /\ dispatching = [t \in Targets |-> FALSE]
    /\ audio = [t \in Targets |-> [phase |-> "none", n |-> 0]]
    /\ user = NoUser
    /\ localStorage = NoItem
    /\ route = "/login"
    /\ loginResult = NoResult
    /\ clock = 0

----------------------------------------------------------------------------
(* Bounds of the model *)

\* transform updates that may be queued before React re-renders
MaxPending == 2
\* the '+' button is not pressed beyond this scale (hundredths)
ScaleCap == 1400
\* the '-' button is not pressed below this scale (hundredths)
ScaleFloor == 5
\* panning is not continued beyond this offset (pixels)
MaxOffset == 100

----------------------------------------------------------------------------
(* Program constants *)

ScaleMin == 10        \* Math.max(0.1, ...)
ScaleMax == 1000      \* Math.min(10, ...)
HitRadius == 20       \* let closestDist = 20

NoNet == "null"
NoNode == "null"

Identity == [x |-> 0, y |-> 0, scale |-> 100]

Min(a, b) == IF a < b THEN a ELSE b
Max(a, b) == IF a > b THEN a ELSE b

----------------------------------------------------------------------------
(* Input data of the model *)

\* Uploaded files, and the network the server parses from each
Files == {"a.inp", "b.inp"}

\* a.inp: two junction ends of one pipe plus a tank sitting on the second
\* junction; one edge names a node that is not in the node list.
\* b.inp: a single reservoir (zero span on both axes) and a dangling edge.
Net(id) ==
    IF id = "a.inp"
    THEN [nodes |-> << [id |-> "n1", x |-> 0, y |-> 0, type |-> "junction"],
                       [id |-> "n2", x |-> 10, y |-> 10, type |-> "junction"],
                       [id |-> "n3", x |-> 10, y |-> 10, type |-> "tank"] >>,
          edges |-> << [start_node |-> "n1", end_node |-> "n2"],
                       [start_node |-> "n2", end_node |-> "n9"],
                       [start_node |-> "n3", end_node |-> "n1"] >>]
    ELSE IF id = "b.inp"
    THEN [nodes |-> << [id |-> "m1", x |-> 5, y |-> 5, type |-> "reservoir"] >>,
          edges |-> << [start_node |-> "m0", end_node |-> "m1"] >>]
    ELSE [nodes |-> << >>, edges |-> << >>]

\* Sizes the canvas container takes (getBoundingClientRect)
Rects == { [left |-> 0, top |-> 0, width |-> 200, height |-> 100],
           [left |-> 0, top |-> 0, width |-> 160, height |-> 100] }

\* Pointer positions (clientX, clientY) of the mouse events
Pointers == { [x |-> 50, y |-> 70], [x |-> 100, y |-> 50], [x |-> 150, y |-> 30] }

\* e.deltaY of the wheel events
Deltas == {-100, 0, 100}

\* Scales the pointer specification starts from: 1.0, the lower clamp 0.1
\* (wheel-out) and 1.3 (one press of '+')
ScaleSamples == {100, 10, 130}

----------------------------------------------------------------------------
(* NetworkMap (canvas): pure helpers *)

RECURSIVE MinOver(_, _, _), MaxOver(_, _, _)
MinOver(nodes, i, axis) ==
    IF i = Len(nodes) THEN nodes[i][axis]
    ELSE Min(nodes[i][axis], MinOver(nodes, i + 1, axis))
MaxOver(nodes, i, axis) ==
    IF i = Len(nodes) THEN nodes[i][axis]
    ELSE Max(nodes[i][axis], MaxOver(nodes, i + 1, axis))

\* mutant: the padding without its fallback, padX = (maxX - minX) * 0.08
PadNoFallback(span) == span * 8

\* padX = (maxX - minX) * 0.08 || 1, in hundredths of a world unit
Pad(span) == IF span * 8 = 0 THEN 100 ELSE span * 8

\* getBounds: hundredths of a world unit
getBounds(nodes) ==
    IF Len(nodes) = 0
    THEN [minX |-> 0, maxX |-> 100, minY |-> 0, maxY |-> 100]
    ELSE LET minX == MinOver(nodes, 1, "x")
             maxX == MaxOver(nodes, 1, "x")
             minY == MinOver(nodes, 1, "y")
             maxY == MaxOver(nodes, 1, "y")
             padX == Pad(maxX - minX)
             padY == Pad(maxY - minY)
         IN  [minX |-> 100 * minX - padX, maxX |-> 100 * maxX + padX,
              minY |-> 100 * minY - padY, maxY |-> 100 * maxY + padY]

\* mutant: the projection without the flip of the y axis
toCanvasNoFlip(wx, wy, bounds, width, height, tf) ==
    LET bw == bounds.maxX - bounds.minX
        bh == bounds.maxY - bounds.minY
        xLess == width * bh <= height * bw
        sNum == IF xLess THEN 85 * width ELSE 85 * height
        sDen == IF xLess THEN bw ELSE bh
        qx == ((200 * wx - (bounds.minX + bounds.maxX)) * sNum) \div (2 * sDen)
        qy == ((200 * wy - (bounds.minY + bounds.maxY)) * sNum) \div (2 * sDen)
    IN  [x |-> (qx * tf.scale) \div 10000 + width \div 2 + tf.x,
         y |-> (qy * tf.scale) \div 10000 + height \div 2 + tf.y]

\* toCanvas: s = min(width / bw, height / bh) * 0.85 is the rational sNum / sDen;
\* q is (w - mid) * s in hundredths of a pixel.
toCanvas(wx, wy, bounds, width, height, tf) ==
    LET bw == bounds.maxX - bounds.minX
        bh == bounds.maxY - bounds.minY
        xLess == width * bh <= height * bw       \* scaleX <= scaleY
        sNum == IF xLess THEN 85 * width ELSE 85 * height
        sDen == IF xLess THEN bw ELSE bh
        qx == ((200 * wx - (bounds.minX + bounds.maxX)) * sNum) \div (2 * sDen)
        qy == ((200 * wy - (bounds.minY + bounds.maxY)) * sNum) \div (2 * sDen)
    IN  [x |-> (qx * tf.scale) \div 10000 + width \div 2 + tf.x,
         y |-> ((0 - qy) * tf.scale) \div 10000 + height \div 2 + tf.y]

\* Math.hypot(p.x - mx, p.y - my), squared
Dist2(p, mx, my) == (p.x - mx) * (p.x - mx) + (p.y - my) * (p.y - my)

\* mutant: the comparison of the hit test written with <=
CloserOrEqual(dist, closestDist) == dist <= closestDist

\* if (dist < closestDist) { closest = node.id; closestDist = dist }
Closer(dist, closestDist) == dist < closestDist

\* the for loop of the hit test, from node i on
RECURSIVE HitLoop(_, _, _, _, _, _, _, _, _)
HitLoop(nodes, i, closest, closestDist, mx, my, bounds, rc, tf) ==
    IF i > Len(nodes) THEN closest
    ELSE LET p == toCanvas(nodes[i].x, nodes[i].y, bounds, rc.width, rc.height, tf)
             dist == Dist2(p, mx, my)
         IN  IF Closer(dist, closestDist)
             THEN HitLoop(nodes, i + 1, nodes[i].id, dist, mx, my, bounds, rc, tf)
             ELSE HitLoop(nodes, i + 1, closest, closestDist, mx, my, bounds, rc, tf)

\* mutant: the threshold taken as a diameter (closestDist = 40)
HitTestWide(nodes, e, rc, tf) ==
    HitLoop(nodes, 1, NoNode, 4 * HitRadius * HitRadius,
            e.x - rc.left, e.y - rc.top, getBounds(nodes), rc, tf)

\* mutant: the scan starts from the node hovered before (let closest = hoveredNode)
HitTestSticky(nodes, e, rc, tf) ==
    HitLoop(nodes, 1, hoveredNode, HitRadius * HitRadius,
            e.x - rc.left, e.y - rc.top, getBounds(nodes), rc, tf)

\* the hit test of handleMouseMove for the event position e
HitTest(nodes, e, rc, tf) ==
    HitLoop(nodes, 1, NoNode, HitRadius * HitRadius,
            e.x - rc.left, e.y - rc.top, getBounds(nodes), rc, tf)

\* nodeMap[id]: the last node of the list with that id, or none
NodeIndex(nodes, id) ==
    LET hits == {i \in 1..Len(nodes) : nodes[i].id = id}
    IN  IF hits = {} THEN 0 ELSE CHOOSE i \in hits : \A j \in hits : j <= i

\* the pipes loop of the draw effect: one segment per edge with both ends known
RECURSIVE DrawPipes(_, _, _, _, _)
DrawPipes(net, i, bounds, rc, tf) ==
    IF i > Len(net.edges) THEN << >>
    ELSE LET a == NodeIndex(net.nodes, net.edges[i].start_node)
             b == NodeIndex(net.nodes, net.edges[i].end_node)
             rest == DrawPipes(net, i + 1, bounds, rc, tf)
         IN  IF a = 0 \/ b = 0 THEN rest
             ELSE << [p1 |-> toCanvas(net.nodes[a].x, net.nodes[a].y, bounds, rc.width, rc.height, tf),
                      p2 |-> toCanvas(net.nodes[b].x, net.nodes[b].y, bounds, rc.width, rc.height, tf)] >>
                  \o rest

Blank == [pipes |-> << >>, nodes |-> << >>]

\* the draw effect on a network: the pipes path, then one arc per node
DrawNet(net, rc, tf) ==
    LET bounds == getBounds(net.nodes)
    IN  [pipes |-> DrawPipes(net, 1, bounds, rc, tf),
         nodes |-> [i \in 1..Len(net.nodes) |->
                       toCanvas(net.nodes[i].x, net.nodes[i].y, bounds, rc.width, rc.height, tf)]]

\* the draw effect: if (!canvas || !container || !network) return
Draw(netId, rc, tf) == IF netId = NoNet THEN Blank ELSE DrawNet(Net(netId), rc, tf)

----------------------------------------------------------------------------
(* NetworkMap (canvas): state updaters passed to setTransform *)

Clamp(s) == Max(ScaleMin, Min(ScaleMax, s))

\* const factor = e.deltaY > 0 ? 0.9 : 1.1, in tenths
WheelFactor(deltaY) == IF deltaY > 0 THEN 9 ELSE 11

\* mutant: the wheel updater without the clamp
WheelUpdateNoClamp(prev, deltaY) ==
    [prev EXCEPT !.scale = (prev.scale * WheelFactor(deltaY)) \div 10]

WheelUpdate(prev, deltaY) ==
    [prev EXCEPT !.scale = Clamp((prev.scale * WheelFactor(deltaY)) \div 10)]

ZoomInUpdate(prev) == [prev EXCEPT !.scale = (prev.scale * 13) \div 10]

ZoomOutUpdate(prev) == [prev EXCEPT !.scale = (prev.scale * 7) \div 10]

\* mutant: the pan written on the rendered transform, setTransform({ ...transform, x: transform.x + dx, ... })
PanUpdateStale(prev, dx, dy) == [shown EXCEPT !.x = shown.x + dx, !.y = shown.y + dy]

PanUpdate(prev, dx, dy) == [prev EXCEPT !.x = prev.x + dx, !.y = prev.y + dy]

----------------------------------------------------------------------------
(* Layer builders: inputs *)

\* nodes of the scenes; probability (SandboxUniversal) in hundredths
NodeA == [id |-> "n1", x |-> 0, y |-> 0, probability |-> 5]
NodeB == [id |-> "n2", x |-> 10, y |-> 10, probability |-> 60]
NodeC == [id |-> "n3", x |-> 10, y |-> 0, probability |-> 30]

\* links carry the ids of their end nodes and, for the Plotly maps, the
\* coordinates of their ends; p2 ends at n9, which no node list contains
LinkAB == [id |-> "p1", start |-> "n1", end |-> "n2",
           start_x |-> 0, start_y |-> 0, end_x |-> 10, end_y |-> 10]
LinkB9 == [id |-> "p2", start |-> "n2", end |-> "n9",
           start_x |-> 10, start_y |-> 10, end_x |-> 20, end_y |-> 20]
LinkCA == [id |-> "p3", start |-> "n3", end |-> "n1",
           start_x |-> 10, start_y |-> 0, end_x |-> 0, end_y |-> 0]

\* heatmap weights in hundredths
PredHeat == [gps |-> TRUE, x |-> 4, y |-> 4, true_x |-> 5, true_y |-> 5, hasHeat |-> TRUE,
             heatmap |-> << [x |-> 1, y |-> 1, weight |-> 90], [x |-> 2, y |-> 2, weight |-> 10] >>]
PredNoGps == [gps |-> FALSE, x |-> 6, y |-> 6, true_x |-> 7, true_y |-> 7, hasHeat |-> TRUE,
              heatmap |-> << [x |-> 3, y |-> 3, weight |-> 50] >>]
PredNoHeat == [gps |-> TRUE, x |-> 8, y |-> 8, true_x |-> 9, true_y |-> 9, hasHeat |-> FALSE,
               heatmap |-> << >>]

Scenes ==
    [nodes : { << >>, <<NodeA, NodeB, NodeC>>, <<NodeC, NodeB, NodeA>> },
     links : { << >>, <<LinkAB, LinkCA>>, <<LinkAB, LinkB9, LinkCA>>, <<LinkB9, LinkAB>> },
     sensors : { <<"n1">>, <<"n3", "n8">> },
     predictions : { << >>, <<PredHeat>>, <<PredNoGps, PredHeat>>, <<PredHeat, PredNoHeat>> },
     leaks : { << >>, << [x |-> 5, y |-> 5, pipe_id |-> "p1"] >> },
     showGt : BOOLEAN,
     showPred : BOOLEAN,
     selectedLeaks : { << >>, <<"p1">>, <<"p2", "p3">> },
     simDone : BOOLEAN,
     injected_leak : {"n2", "n9"}]

Prim(kind, items) == [kind |-> kind, items |-> items]
Pt(x, y) == [x |-> x, y |-> y]
Seg(x0, y0, x1, y1) == [x0 |-> x0, y0 |-> y0, x1 |-> x1, y1 |-> y1]

NoFigure == [by |-> "none", data |-> << >>, shapes |-> << >>]

NoCall == [fn |-> "none"]

RECURSIVE Flatten(_)
Flatten(ss) == IF ss = << >> THEN << >> ELSE Head(ss) \o Flatten(Tail(ss))

HasGps(p) == p.gps
HasHeat(p) == p.hasHeat

\* mutant: only the first sample of each heatmap is taken
SamplesFirstOnly(preds) ==
    Flatten([i \in 1..Len(preds) |->
                IF preds[i].hasHeat /\ Len(preds[i].heatmap) > 0 THEN << preds[i].heatmap[1] >> ELSE << >>])

\* the heatmap samples of the predictions, in order: for (p of preds) if (p.heatmap) p.heatmap.forEach
Samples(preds) == Flatten([i \in 1..Len(preds) |-> IF preds[i].hasHeat THEN preds[i].heatmap ELSE << >>])

NodePts(nodes) == [i \in 1..Len(nodes) |-> Pt(nodes[i].x, nodes[i].y)]
LinkSeg(l) == Seg(l.start_x, l.start_y, l.end_x, l.end_y)

----------------------------------------------------------------------------
(* NetworkMap, Plotly 3D: plotData *)

\* mutant: the pipes trace pushed only when the network has a link
Pipes3DUnlessEmpty(sc) ==
    IF Len(sc.links) = 0 THEN << >>
    ELSE << Prim("link", [i \in 1..Len(sc.links) |-> LinkSeg(sc.links[i])]) >>

\* one batched trace drawn from the coordinates each link carries
Pipes3D(sc) == << Prim("link", [i \in 1..Len(sc.links) |-> LinkSeg(sc.links[i])]) >>

\* mutant: the ground-truth trace pushed whatever showGt says
GroundTruthLayerAlways(sc) ==
    IF Len(sc.leaks) > 0
    THEN << Prim("gt", [i \in 1..Len(sc.leaks) |-> Pt(sc.leaks[i].x, sc.leaks[i].y)]) >>
    ELSE << >>

GroundTruthLayer(sc) ==
    IF sc.showGt /\ Len(sc.leaks) > 0
    THEN << Prim("gt", [i \in 1..Len(sc.leaks) |-> Pt(sc.leaks[i].x, sc.leaks[i].y)]) >>
    ELSE << >>

\* mutant: the prediction stars pushed before the heatmap traces
PredLayers3DStarsFirst(sc) ==
    IF sc.showPred /\ Len(sc.predictions) > 0
    THEN LET validPreds == SelectSeq(sc.predictions, HasGps)
             hs == Samples(validPreds)
         IN  << Prim("pred", [i \in 1..Len(validPreds) |-> Pt(validPreds[i].x, validPreds[i].y)]) >>
             \o (IF Len(hs) > 0 THEN << Prim("pillar", hs), Prim("heat", hs) >> ELSE << >>)
    ELSE << >>

\* pillars and heatmap markers (when there is a sample), then the prediction stars
PredLayers3D(sc) ==
    IF sc.showPred /\ Len(sc.predictions) > 0
    THEN LET validPreds == SelectSeq(sc.predictions, HasGps)
             hs == Samples(validPreds)
         IN  (IF Len(hs) > 0 THEN << Prim("pillar", hs), Prim("heat", hs) >> ELSE << >>)
             \o << Prim("pred", [i \in 1..Len(validPreds) |-> Pt(validPreds[i].x, validPreds[i].y)]) >>
    ELSE << >>

plotData3D(sc) ==
    [by |-> "plotData3D",
     data |-> Pipes3D(sc) \o << Prim("node", NodePts(sc.nodes)) >>
              \o GroundTruthLayer(sc) \o PredLayers3D(sc),
     shapes |-> << >>]

----------------------------------------------------------------------------
(* NetworkMap, Plotly 2D: plotData and plotShapes *)

\* one layout shape per link
plotShapes(sc) == [i \in 1..Len(sc.links) |-> Prim("link", << LinkSeg(sc.links[i]) >>)]

\* one trace per heatmap sample, then the predicted leaks
PredLayers2D(sc) ==
    IF sc.showPred /\ Len(sc.predictions) > 0
    THEN LET validPreds == SelectSeq(sc.predictions, HasGps)
             hs == Samples(validPreds)
         IN  [i \in 1..Len(hs) |-> Prim("heat", << hs[i] >>)]
             \o << Prim("pred", [i \in 1..Len(validPreds) |-> Pt(validPreds[i].x, validPreds[i].y)]) >>
    ELSE << >>

plotData2D(sc) ==
    [by |-> "plotData2D",
     data |-> << Prim("node", NodePts(sc.nodes)) >> \o GroundTruthLayer(sc) \o PredLayers2D(sc),
     shapes |-> plotShapes(sc)]

----------------------------------------------------------------------------
(* SandboxProcedural: buildFigData *)

Resolves(nodes, l) == NodeIndex(nodes, l.start) # 0 /\ NodeIndex(nodes, l.end) # 0

\* the segment between the nodes the pipe names
PipeSeg(nodes, l) ==
    LET n1 == nodes[NodeIndex(nodes, l.start)]
        n2 == nodes[NodeIndex(nodes, l.end)]
    IN  Seg(n1.x, n1.y, n2.x, n2.y)

InSeq(x, xs) == \E i \in 1..Len(xs) : xs[i] = x

\* mutant: the pipes drawn from the coordinates in the link, as NetworkMap does, without the node lookup
PipesProceduralNoLookup(sc) ==
    LET leak == [i \in 1..Len(sc.links) |->
                    IF InSeq(sc.links[i].id, sc.selectedLeaks)
                    THEN << Prim("link", << LinkSeg(sc.links[i]) >>) >> ELSE << >>]
        rest == [i \in 1..Len(sc.links) |->
                    IF ~InSeq(sc.links[i].id, sc.selectedLeaks)
                    THEN << LinkSeg(sc.links[i]) >> ELSE << >>]
    IN  Flatten(leak) \o << Prim("link", Flatten(rest)) >>

\* pipes with an unknown end are skipped; a selected pipe is its own trace,
\* pushed inside the loop; the others are batched into one trace after it
PipesProcedural(sc) ==
    LET leak == [i \in 1..Len(sc.links) |->
                    IF Resolves(sc.nodes, sc.links[i]) /\ InSeq(sc.links[i].id, sc.selectedLeaks)
                    THEN << Prim("link", << PipeSeg(sc.nodes, sc.links[i]) >>) >> ELSE << >>]
        rest == [i \in 1..Len(sc.links) |->
                    IF Resolves(sc.nodes, sc.links[i]) /\ ~InSeq(sc.links[i].id, sc.selectedLeaks)
                    THEN << PipeSeg(sc.nodes, sc.links[i]) >> ELSE << >>]
    IN  Flatten(leak) \o << Prim("link", Flatten(rest)) >>

IsKnownNode(nodes, id) == NodeIndex(nodes, id) # 0

\* network.sensors.map(s => nodeMap[s]).filter(Boolean)
SensorLayer(sc) ==
    LET pts == [i \in 1..Len(sc.sensors) |->
                   IF IsKnownNode(sc.nodes, sc.sensors[i])
                   THEN << Pt(sc.nodes[NodeIndex(sc.nodes, sc.sensors[i])].x,
                              sc.nodes[NodeIndex(sc.nodes, sc.sensors[i])].y) >>
                   ELSE << >>]
    IN  << Prim("sensor", Flatten(pts)) >>

\* network.pipes.find(pp => pp.id === pid): index of the first pipe with that id, or 0
PipeIndex(links, pid) ==
    LET hits == {i \in 1..Len(links) : links[i].id = pid}
    IN  IF hits = {} THEN 0 ELSE CHOOSE i \in hits : \A j \in hits : i <= j

\* the markers of the placed leaks, at the middle of their pipes (coordinates doubled)
PlacedLeakLayer(sc) ==
    IF Len(sc.selectedLeaks) > 0
    THEN LET mids == [i \in 1..Len(sc.selectedLeaks) |->
                        LET k == PipeIndex(sc.links, sc.selectedLeaks[i])
                        IN  IF k # 0 /\ Resolves(sc.nodes, sc.links[k])
                            THEN LET sg == PipeSeg(sc.nodes, sc.links[k])
                                 IN  << Pt(sg.x0 + sg.x1, sg.y0 + sg.y1) >>
                            ELSE << >>]
         IN  << Prim("gt", Flatten(mids)) >>
    ELSE << >>

PredPts(preds) == [i \in 1..Len(preds) |-> Pt(preds[i].x, preds[i].y)]
ErrSegs(preds) == [i \in 1..Len(preds) |-> Seg(preds[i].true_x, preds[i].true_y, preds[i].x, preds[i].y)]

\* mutant: the error lines pushed before the prediction stars
SimLayersProceduralErrFirst(sc) ==
    IF sc.simDone
    THEN LET hs == Samples(sc.predictions)
         IN  (IF Len(hs) > 0 THEN << Prim("pillar", hs), Prim("heat", hs) >> ELSE << >>)
             \o << Prim("err", ErrSegs(sc.predictions)) >>
             \o << Prim("pred", PredPts(sc.predictions)) >>
    ELSE << >>

\* simMutation.data?.predictions: pillars and heatmap, prediction stars, error lines
SimLayersProcedural(sc) ==
    IF sc.simDone
    THEN LET hs == Samples(sc.predictions)
         IN  (IF Len(hs) > 0 THEN << Prim("pillar", hs), Prim("heat", hs) >> ELSE << >>)
             \o << Prim("pred", PredPts(sc.predictions)) >>
             \o << Prim("err", ErrSegs(sc.predictions)) >>
    ELSE << >>

buildFigDataProcedural(sc) ==
    [by |-> "buildFigDataProcedural",
     data |-> PipesProcedural(sc) \o << Prim("node", NodePts(sc.nodes)) >> \o SensorLayer(sc)
              \o PlacedLeakLayer(sc) \o SimLayersProcedural(sc),
     shapes |-> << >>]

\* the first SandboxProcedural (2D): one trace per pipe, per heatmap sample, per error line
PipesProcedural2D(sc) ==
    Flatten([i \in 1..Len(sc.links) |->
                IF Resolves(sc.nodes, sc.links[i])
                THEN << Prim("link", << PipeSeg(sc.nodes, sc.links[i]) >>) >> ELSE << >>])

SimLayersProcedural2D(sc) ==
    IF sc.simDone
    THEN LET hs == Samples(sc.predictions)
         IN  [i \in 1..Len(hs) |-> Prim("heat", << hs[i] >>)]
             \o << Prim("pred", PredPts(sc.predictions)) >>
             \o [i \in 1..Len(sc.predictions) |-> Prim("err", << ErrSegs(sc.predictions)[i] >>)]
    ELSE << >>

buildFigDataProcedural2D(sc) ==
    [by |-> "buildFigDataProcedural2D",
     data |-> PipesProcedural2D(sc) \o << Prim("node", NodePts(sc.nodes)) >> \o SensorLayer(sc)
              \o PlacedLeakLayer(sc) \o SimLayersProcedural2D(sc),
     shapes |-> << >>]

----------------------------------------------------------------------------
(* SandboxUniversal: buildFigData *)

\* nodes.filter(n => n.probability > 0.1)
IsSuspect(n) == n.probability > 10

\* nodes.find(n => n.id === injected_leak): index of the first such node, or 0
FindNode(nodes, id) ==
    LET hits == {i \in 1..Len(nodes) : nodes[i].id = id}
    IN  IF hits = {} THEN 0 ELSE CHOOSE i \in hits : \A j \in hits : i <= j

\* 3. one heatmap marker per suspect node, 4. the injected leak
OverlayUniversal(sc) ==
    LET suspectNodes == SelectSeq(sc.nodes, IsSuspect)
        k == FindNode(sc.nodes, sc.injected_leak)
    IN  [i \in 1..Len(suspectNodes) |->
            Prim("heat", << [x |-> suspectNodes[i].x, y |-> suspectNodes[i].y,
                             weight |-> suspectNodes[i].probability] >>)]
        \o (IF k # 0 THEN << Prim("gt", << Pt(sc.nodes[k].x, sc.nodes[k].y) >>) >> ELSE << >>)

\* nothing before detectMutation.data; 1. one trace per link, 2. the base nodes
buildFigDataUniversal(sc) ==
    IF ~sc.simDone
    THEN [by |-> "buildFigDataUniversal", data |-> << >>, shapes |-> << >>]
    ELSE [by |-> "buildFigDataUniversal",
          data |-> [i \in 1..Len(sc.links) |-> Prim("link", << LinkSeg(sc.links[i]) >>)]
                   \o << Prim("node", NodePts(sc.nodes)) >> \o OverlayUniversal(sc),
          shapes |-> << >>]

----------------------------------------------------------------------------
(* History variables *)

NoGesture == [phase |-> "idle", p0 |-> [x |-> 0, y |-> 0], pn |-> [x |-> 0, y |-> 0], base |-> Identity]
NoMove == [kind |-> "none", pos |-> [x |-> 0, y |-> 0]]

Abs(n) == IF n < 0 THEN 0 - n ELSE n

----------------------------------------------------------------------------
(* NetworkMap (canvas): handlers.  The component is mounted by Dashboard   *)
(* exactly while network is not null.                                      *)

Mounted == network # NoNet

\* onMouseDown
HandleMouseDown(e) ==
    /\ Mounted
    /\ isDragging' = TRUE
    /\ lastMouse' = e
    /\ gesture' = [phase |-> "drag", p0 |-> e, pn |-> e, base |-> transform]
    /\ lastMove' = NoMove
    /\ UNCHANGED <<transform, shown, pending, hoveredNode, rect, canvas>>
    /\ UNCHANGED <<dashVars, layerVars, callVars, appVars>>

\* onMouseMove: pan while dragging, else hit test with the transform of the render
HandleMouseMove(e) ==
    /\ Mounted
    /\ IF isDragging
       THEN LET dx == e.x - lastMouse.x
                dy == e.y - lastMouse.y
                next == PanUpdate(transform, dx, dy)
            IN  /\ pending < MaxPending
                /\ Abs(next.x) <= MaxOffset
                /\ Abs(next.y) <= MaxOffset
                /\ lastMouse' = e
                /\ transform' = next
                /\ pending' = pending + 1
                /\ gesture' = IF gesture.phase = "drag" THEN [gesture EXCEPT !.pn = e] ELSE gesture
                /\ lastMove' = [kind |-> "drag", pos |-> e]
                /\ UNCHANGED hoveredNode
       ELSE /\ hoveredNode' = HitTest(Net(network).nodes, e, rect, shown)
            /\ lastMove' = [kind |-> "hover", pos |-> e]
            /\ gesture' = NoGesture
            /\ UNCHANGED <<transform, pending, lastMouse>>
    /\ UNCHANGED <<shown, isDragging, rect, canvas>>
    /\ UNCHANGED <<dashVars, layerVars, callVars, appVars>>

\* onMouseUp
HandleMouseUp ==
    /\ Mounted
    /\ isDragging' = FALSE
    /\ gesture' = IF gesture.phase = "drag" THEN [gesture EXCEPT !.phase = "up"] ELSE gesture
    /\ lastMove' = NoMove
    /\ UNCHANGED <<transform, shown, pending, hoveredNode, lastMouse, rect, canvas>>
    /\ UNCHANGED <<dashVars, layerVars, callVars, appVars>>

\* mutant: the canvas without the onMouseLeave binding, isDragging stays latched
HandleMouseLeaveUnbound ==
    /\ Mounted
    /\ gesture' = NoGesture
    /\ lastMove' = NoMove
    /\ UNCHANGED <<transform, shown, pending, hoveredNode, isDragging, lastMouse, rect, canvas>>
    /\ UNCHANGED <<dashVars, layerVars, callVars, appVars>>

\* onMouseLeave={handleMouseUp}
HandleMouseLeave ==
    /\ Mounted
    /\ isDragging' = FALSE
    /\ gesture' = NoGesture
    /\ lastMove' = NoMove
    /\ UNCHANGED <<transform, shown, pending, hoveredNode, lastMouse, rect, canvas>>
    /\ UNCHANGED <<dashVars, layerVars, callVars, appVars>>

\* a transform update that is not a pan: queued, rendered later
SetTransform(next) ==
    /\ Mounted
    /\ pending < MaxPending
    /\ transform' = next
    /\ pending' = pending + 1
    /\ gesture' = NoGesture
    /\ lastMove' = NoMove
    /\ UNCHANGED <<shown, hoveredNode, isDragging, lastMouse, rect, canvas>>
    /\ UNCHANGED <<dashVars, layerVars, callVars, appVars>>

\* onWheel
HandleWheel(deltaY) == SetTransform(WheelUpdate(transform, deltaY))

\* the '+' button
ZoomInButton ==
    /\ ZoomInUpdate(transform).scale <= ScaleCap
    /\ SetTransform(ZoomInUpdate(transform))

\* the '-' button
ZoomOutButton ==
    /\ ZoomOutUpdate(transform).scale >= ScaleFloor
    /\ SetTransform(ZoomOutUpdate(transform))

\* mutant: a reset that recentres but keeps the zoom, setTransform(prev => ({ ...prev, x: 0, y: 0 }))
ResetButtonKeepsScale ==
    /\ transform # Identity
    /\ SetTransform([transform EXCEPT !.x = 0, !.y = 0])

\* the reset button: setTransform({ x: 0, y: 0, scale: 1 })
ResetButton ==
    /\ transform # Identity
    /\ SetTransform(Identity)

\* ResizeObserver: setTransform(prev => ({ ...prev })) after the container changed size
Resize(rc) ==
    /\ Mounted
    /\ rc # rect
    /\ pending < MaxPending
    /\ rect' = rc
    /\ pending' = pending + 1
    /\ gesture' = NoGesture
    /\ lastMove' = NoMove
    /\ UNCHANGED <<transform, shown, hoveredNode, isDragging, lastMouse, canvas>>
    /\ UNCHANGED <<dashVars, layerVars, callVars, appVars>>

\* React re-renders: the handlers close over the new transform, the draw effect runs
Render ==
    /\ Mounted
    /\ pending > 0 \/ canvas # Draw(network, rect, transform)
    /\ shown' = transform
    /\ pending' = 0
    /\ canvas' = Draw(network, rect, transform)
    /\ lastMove' = NoMove
    /\ UNCHANGED <<transform, hoveredNode, isDragging, lastMouse, rect, gesture>>
    /\ UNCHANGED <<dashVars, layerVars, callVars, appVars>>

----------------------------------------------------------------------------
(* Dashboard *)

NoError == "null"

\* handleUpload up to the await: FileUploader is rendered only while network is null
HandleUpload(file) ==
    /\ network = NoNet
    /\ file \notin inflight
    /\ loading' = TRUE
    /\ error' = NoError
    /\ inflight' = inflight \cup {file}
    /\ UNCHANGED <<network, mapVars, histVars, layerVars, callVars, appVars>>

\* the response is ok: setNetwork(data), finally setLoading(false).  NetworkMap
\* mounts with fresh state when none was shown, and keeps its state otherwise.
UploadOk(file) ==
    /\ file \in inflight
    /\ inflight' = inflight \ {file}
    /\ network' = file
    /\ loading' = FALSE
    /\ shown' = transform
    /\ pending' = 0
    /\ canvas' = Draw(file, rect, transform)
    /\ gesture' = NoGesture
    /\ lastMove' = NoMove
    /\ UNCHANGED <<error, transform, hoveredNode, isDragging, lastMouse, rect, layerVars, callVars, appVars>>

\* the response is not ok, or fetch rejects: setError(err.message), finally setLoading(false)
UploadFail(file) ==
    /\ file \in inflight
    /\ inflight' = inflight \ {file}
    /\ error' = "Upload failed"
    /\ loading' = FALSE
    /\ UNCHANGED <<network, mapVars, histVars, layerVars, callVars, appVars>>

\* 'Load New Network': setNetwork(null) unmounts NetworkMap, its state is dropped
LoadNewNetwork ==
    /\ network # NoNet
    /\ network' = NoNet
    /\ transform' = Identity
    /\ shown' = Identity
    /\ pending' = 0
    /\ hoveredNode' = NoNode
    /\ isDragging' = FALSE
    /\ lastMouse' = [x |-> 0, y |-> 0]
    /\ canvas' = Blank
    /\ gesture' = NoGesture
    /\ lastMove' = NoMove
    /\ UNCHANGED <<loading, error, inflight, rect, layerVars, callVars, appVars>>

----------------------------------------------------------------------------
(* Layer builders as operations on a scene *)

\* the scene as the network prop of the canvas NetworkMap
CanvasNet(sc) ==
    [nodes |-> sc.nodes,
     edges |-> [i \in 1..Len(sc.links) |->
                   [start_node |-> sc.links[i].start, end_node |-> sc.links[i].end]]]

\* what the draw effect paints for the scene, unzoomed
drawCanvas(sc) ==
    LET d == DrawNet(CanvasNet(sc), [left |-> 0, top |-> 0, width |-> 200, height |-> 100], Identity)
    IN  [by |-> "canvas",
         data |-> << Prim("link", [i \in 1..Len(d.pipes) |->
                                      Seg(d.pipes[i].p1.x, d.pipes[i].p1.y, d.pipes[i].p2.x, d.pipes[i].p2.y)]) >>
                  \o [i \in 1..Len(d.nodes) |-> Prim("node", << d.nodes[i] >>)],
         shapes |-> << >>]

Built(fig) ==
    /\ scene \in Scenes
    /\ figure.by # fig.by
    /\ figure' = fig
    /\ UNCHANGED <<scene, dashVars, mapVars, histVars, callVars, appVars>>

BuildPlotData3D == Built(plotData3D(scene))
BuildPlotData2D == Built(plotData2D(scene))
BuildFigDataProcedural == Built(buildFigDataProcedural(scene))
BuildFigDataProcedural2D == Built(buildFigDataProcedural2D(scene))
BuildFigDataUniversal == Built(buildFigDataUniversal(scene))
DrawCanvas == Built(drawCanvas(scene))

----------------------------------------------------------------------------
(* Specifications *)

NoScene == [builder |-> "none"]

FirstRect == [left |-> 0, top |-> 0, width |-> 200, height |-> 100]

\* the page as first rendered: no network, the uploader shown
Init ==
    /\ network = NoNet
    /\ loading = FALSE
    /\ error = NoError
    /\ inflight = {}
    /\ transform = Identity
    /\ shown = Identity
    /\ pending = 0
    /\ hoveredNode = NoNode
    /\ isDragging = FALSE
    /\ lastMouse = [x |-> 0, y |-> 0]
    /\ rect = FirstRect
    /\ canvas = Blank
    /\ gesture = NoGesture
    /\ lastMove = NoMove
    /\ scene = NoScene
    /\ figure = NoFigure
    /\ AppIdle
    /\ call = NoCall
    /\ result = NoCall

\* Dashboard with the map it mounts: uploads, 'Load New Network', the zoom
\* buttons, hover and re-render
Next ==
    \/ \E f \in Files : HandleUpload(f)
    \/ \E f \in Files : UploadOk(f)
    \/ \E f \in Files : UploadFail(f)
    \/ LoadNewNetwork
    \/ ZoomInButton
    \/ ZoomOutButton
    \/ ResetButton
    \/ \E e \in Pointers : HandleMouseMove(e)
    \/ Render

Spec == Init /\ [][Next]_vars

\* the map just mounted for a.inp
InitMap ==
    /\ network = "a.inp"
    /\ loading = FALSE
    /\ error = NoError
    /\ inflight = {}
    /\ transform = Identity
    /\ shown = Identity
    /\ pending = 0
    /\ hoveredNode = NoNode
    /\ isDragging = FALSE
    /\ lastMouse = [x |-> 0, y |-> 0]
    /\ rect = FirstRect
    /\ canvas = Draw("a.inp", FirstRect, Identity)
    /\ gesture = NoGesture
    /\ lastMove = NoMove
    /\ scene = NoScene
    /\ figure = NoFigure
    /\ AppIdle
    /\ call = NoCall
    /\ result = NoCall

\* wheel events only
NextWheel ==
    \/ \E d \in Deltas : HandleWheel(d)
    \/ Render

SpecWheel == InitMap /\ [][NextWheel]_vars

\* every zoom operation of the map
NextZoom ==
    \/ \E d \in Deltas : HandleWheel(d)
    \/ ZoomInButton
    \/ ZoomOutButton
    \/ ResetButton
    \/ Render

SpecZoom == InitMap /\ [][NextZoom]_vars

\* a mounted map at some scale and container size
InitPointer ==
    /\ network \in Files
    /\ loading = FALSE
    /\ error = NoError
    /\ inflight = {}
    /\ \E s \in ScaleSamples : transform = [x |-> 0, y |-> 0, scale |-> s]
    /\ shown = transform
    /\ pending = 0
    /\ hoveredNode = NoNode
    /\ isDragging = FALSE
    /\ lastMouse = [x |-> 0, y |-> 0]
    /\ rect \in Rects
    /\ canvas = Draw(network, rect, transform)
    /\ gesture = NoGesture
    /\ lastMove = NoMove
    /\ scene = NoScene
    /\ figure = NoFigure
    /\ AppIdle
    /\ call = NoCall
    /\ result = NoCall

\* the pointer handlers of the canvas
NextPointer ==
    \/ \E e \in Pointers : HandleMouseDown(e)
    \/ \E e \in Pointers : HandleMouseMove(e)
    \/ HandleMouseUp
    \/ HandleMouseLeave
    \/ \E rc \in Rects : Resize(rc)
    \/ Render

SpecPointer == InitPointer /\ [][NextPointer]_vars

----------------------------------------------------------------------------
(* Viewport claims *)

ScaleInRange(tf) == ScaleMin <= tf.scale /\ tf.scale <= ScaleMax

\* C1: under wheel events alone, from the initial transform, the scale is
\* within [0.1, 10] after every event.
C1_WheelKeepsScaleInRange == ScaleInRange(transform) /\ ScaleInRange(shown)

\* a wheel event has just been cut at the upper clamp, another at the lower
C1_Witness ==
    /\ pending > 0
    /\ transform.scale = ScaleMax
    /\ shown.scale < ScaleMax
    /\ (shown.scale * 11) \div 10 > ScaleMax

\* C2: in every reachable viewport state the scale is within [0.1, 10],
\* whatever zoom operations (wheel, '+', '-') were applied.
C2_EveryZoomKeepsScaleInRange == ScaleInRange(transform)

\* C3: after pointer-down at p0, pointer-moves ending at pn and pointer-up,
\* with no other viewport event in between, the offset has grown by exactly
\* pn - p0 and the scale is the one at pointer-down.
C3_PanAddsPointerDelta ==
    gesture.phase = "up" =>
        /\ transform.x = gesture.base.x + (gesture.pn.x - gesture.p0.x)
        /\ transform.y = gesture.base.y + (gesture.pn.y - gesture.p0.y)
        /\ transform.scale = gesture.base.scale

\* two moves handled before any re-render, at a scale other than 1
C3_Witness ==
    /\ gesture.phase = "up"
    /\ pending = 2
    /\ gesture.pn.x - gesture.p0.x = 100
    /\ gesture.pn.y - gesture.p0.y = 0 - 40
    /\ transform.scale # 100
    /\ shown.x = gesture.base.x

----------------------------------------------------------------------------
(* Hit-test claims: the projection the handler used is the one of the      *)
(* latest render (shown), in the container's current rect.                 *)

Nodes == Net(network).nodes

\* squared pixel distance from the pointer e to the projection of node i
NodeDist2(i, e) ==
    Dist2(toCanvas(Nodes[i].x, Nodes[i].y, getBounds(Nodes), rect.width, rect.height, shown),
          e.x - rect.left, e.y - rect.top)

Within(i, e) == NodeDist2(i, e) < HitRadius * HitRadius

\* the nearest node, the first of the list among equally near ones
IsFirstNearest(k, e) ==
    /\ \A j \in 1..Len(Nodes) : NodeDist2(k, e) <= NodeDist2(j, e)
    /\ \A j \in 1..(k - 1) : NodeDist2(j, e) > NodeDist2(k, e)

\* C7: a pointer-move (not dragging) 20 px or more from every projected node
\* sets the hovered node to null; a node id is set only for a node strictly
\* closer than 20 px.
C7_HoverOnlyWithinThreshold ==
    lastMove.kind = "hover" =>
        /\ (\A i \in 1..Len(Nodes) : ~Within(i, lastMove.pos)) => hoveredNode = NoNode
        /\ hoveredNode # NoNode =>
              \E i \in 1..Len(Nodes) : Nodes[i].id = hoveredNode /\ Within(i, lastMove.pos)

\* a hover exactly 20 px away from the only node: null
C7_Witness ==
    /\ lastMove.kind = "hover"
    /\ hoveredNode = NoNode
    /\ \E i \in 1..Len(Nodes) : NodeDist2(i, lastMove.pos) = HitRadius * HitRadius

\* C8: when some node projects strictly within 20 px of the pointer, the hit
\* test returns the node at minimal distance, the first of network.nodes
\* among those at equal minimal distance (so the result is a function of
\* network, transform, viewport size and pointer position).
C8_NearestFirstOnTies ==
    (lastMove.kind = "hover" /\ \E i \in 1..Len(Nodes) : Within(i, lastMove.pos)) =>
        \E k \in 1..Len(Nodes) : IsFirstNearest(k, lastMove.pos) /\ hoveredNode = Nodes[k].id

\* two nodes at the same minimal distance, the earlier one hovered
C8_Witness ==
    /\ lastMove.kind = "hover"
    /\ \E k \in 1..Len(Nodes) : \E j \in (k + 1)..Len(Nodes) :
          /\ IsFirstNearest(k, lastMove.pos)
          /\ Within(k, lastMove.pos)
          /\ NodeDist2(j, lastMove.pos) = NodeDist2(k, lastMove.pos)
          /\ hoveredNode = Nodes[k].id
          /\ Nodes[j].id # Nodes[k].id

\* the hit-test result for pointer e, stated without the loop
Nearest(e) ==
    IF \E i \in 1..Len(Nodes) : Within(i, e)
    THEN Nodes[CHOOSE k \in 1..Len(Nodes) : IsFirstNearest(k, e)].id
    ELSE NoNode

C10_ViewportResetOnNetworkChange ==
    [][(network' # network /\ network' # NoNet) =>
          (transform' = Identity /\ hoveredNode' = NoNode)]_vars

\* a layer builder applied to any scene
InitLayers ==
    /\ network = NoNet
    /\ loading = FALSE
    /\ error = NoError
    /\ inflight = {}
    /\ transform = Identity
    /\ shown = Identity
    /\ pending = 0
    /\ hoveredNode = NoNode
    /\ isDragging = FALSE
    /\ lastMouse = [x |-> 0, y |-> 0]
    /\ rect = FirstRect
    /\ canvas = Blank
    /\ gesture = NoGesture
    /\ lastMove = NoMove
    /\ scene \in Scenes
    /\ figure = NoFigure
    /\ AppIdle
    /\ call = NoCall
    /\ result = NoCall

NextLayers ==
    \/ BuildPlotData3D
    \/ BuildPlotData2D
    \/ BuildFigDataProcedural
    \/ BuildFigDataProcedural2D
    \/ BuildFigDataUniversal
    \/ DrawCanvas

SpecLayers == InitLayers /\ [][NextLayers]_vars

----------------------------------------------------------------------------
(* Layer claims *)

Data == figure.data

Has(kind) == \E i \in 1..Len(Data) : Data[i].kind = kind

\* every primitive of kind k1 comes before every primitive of kind k2
Before(k1, k2) ==
    \A i, j \in 1..Len(Data) : (Data[i].kind = k1 /\ Data[j].kind = k2) => i < j

C5_FullOrderEveryBuilder ==
    /\ Before("node", "sensor")
    /\ Before("gt", "heat")
    /\ Before("pred", "err")

\* C5 amended: sensors come after the junction nodes and error lines after
\* the prediction markers in every builder; ground-truth markers come before
\* every heatmap point in NetworkMap plotData and SandboxProcedural
\* buildFigData, while SandboxUniversal buildFigData emits its actual-leak
\* marker after all its heatmap points.
C5_FullOrderButUniversalLeakLast ==
    /\ Before("node", "sensor")
    /\ Before("pred", "err")
    /\ figure.by # "buildFigDataUniversal" => Before("gt", "heat")
    /\ figure.by = "buildFigDataUniversal" => Before("heat", "gt")

\* the sandbox map with sensors, placed leaks, heatmap, predictions and error lines
C5_Witness ==
    /\ figure.by = "buildFigDataProcedural"
    /\ Has("sensor") /\ Has("gt") /\ Has("heat") /\ Has("pred") /\ Has("err")

\* every segment of the pipes layer, traces first, then layout shapes
AllSegs ==
    Flatten([i \in 1..Len(Data) |-> IF Data[i].kind = "link" THEN Data[i].items ELSE << >>])
    \o Flatten([i \in 1..Len(figure.shapes) |-> figure.shapes[i].items])

\* the coordinates the figure gives the nodes of the scene
FigureNodePts ==
    IF figure.by = "canvas"
    THEN DrawNet(CanvasNet(scene), [left |-> 0, top |-> 0, width |-> 200, height |-> 100], Identity).nodes
    ELSE NodePts(scene.nodes)

JoinsNodes(sg) ==
    \E a, b \in 1..Len(FigureNodePts) :
        sg = Seg(FigureNodePts[a].x, FigureNodePts[a].y, FigureNodePts[b].x, FigureNodePts[b].y)

KnownId(id) == \E i \in 1..Len(scene.nodes) : scene.nodes[i].id = id

ResolvableLinks == {i \in 1..Len(scene.links) : KnownId(scene.links[i].start) /\ KnownId(scene.links[i].end)}

\* one segment per link with both ends in the node list, each joining two nodes
OnlyResolvedLinksDrawn ==
    /\ Len(AllSegs) = Cardinality(ResolvableLinks)
    /\ \A i \in 1..Len(AllSegs) : JoinsNodes(AllSegs[i])

Drawn == figure.by # "none" /\ (figure.by = "buildFigDataUniversal" => scene.simDone)

----------------------------------------------------------------------------
(* Viewport claims, continued *)

\* the pointer handlers and the reset button, pressed at any point of a gesture
NextReset ==
    \/ \E e \in Pointers : HandleMouseDown(e)
    \/ \E e \in Pointers : HandleMouseMove(e)
    \/ HandleMouseUp
    \/ HandleMouseLeave
    \/ ResetButton
    \/ \E rc \in Rects : Resize(rc)
    \/ Render

SpecReset == InitPointer /\ [][NextReset]_vars

\* C11: the hit test of a pointer-move projects the nodes with the transform
\* that results from every pan, zoom and reset handled before it, whether or
\* not the component re-rendered in between.
C11_HitTestUsesLatestTransform ==
    lastMove.kind = "hover" => hoveredNode = HitTest(Nodes, lastMove.pos, rect, transform)

\* C12: isDragging is set by pointer-down, cleared by pointer-up and
\* pointer-leave and changed by nothing else; a pointer-move adds the pointer
\* delta to the offset while isDragging is true and leaves the offset alone
\* while it is false.
C12_DragLatchGatesPan ==
    [][/\ \A e \in Pointers : HandleMouseDown(e) => isDragging'
       /\ (HandleMouseUp \/ HandleMouseLeave) => ~isDragging'
       /\ isDragging' # isDragging =>
              ((\E e \in Pointers : HandleMouseDown(e)) \/ HandleMouseUp \/ HandleMouseLeave)
       /\ \A e \in Pointers :
              HandleMouseMove(e) =>
                  IF isDragging
                  THEN /\ transform'.x = transform.x + (e.x - lastMouse.x)
                       /\ transform'.y = transform.y + (e.y - lastMouse.y)
                  ELSE transform'.x = transform.x /\ transform'.y = transform.y]_vars

\* a pointer-move after the end of a pan: the panned offset is still there
C12_Witness ==
    /\ ~isDragging
    /\ lastMove.kind = "hover"
    /\ transform.x # 0
    /\ lastMove.pos # lastMouse

\* C13: the reset action sets the transform to exactly {x: 0, y: 0, scale: 1},
\* whatever the offset and the scale were and whether a drag is in progress.
C13_ResetGivesIdentity == [][ResetButton => transform' = Identity]_vars

\* reset pressed during a drag, on a panned map rendered at a scale other than 1
C13_Witness ==
    /\ transform = Identity
    /\ pending > 0
    /\ isDragging
    /\ shown.x # 0
    /\ shown.scale # 100

----------------------------------------------------------------------------
(* getBounds applied on its own *)

\* nodes of a network handed to getBounds
MaxNodes == 2

\* world coordinates of those nodes
Coords == {0 - 5, 0, 10}

RECURSIVE SeqsUpTo(_, _)
SeqsUpTo(S, n) ==
    IF n = 0 THEN { << >> }
    ELSE LET shorter == SeqsUpTo(S, n - 1)
         IN  shorter \cup { Append(q, v) : q \in {r \in shorter : Len(r) = n - 1}, v \in S }

\* the network prop: its node list may be missing altogether
BoundsInputs ==
    [hasNodes : BOOLEAN,
     nodes : SeqsUpTo([id : {"n"}, x : Coords, y : Coords, type : {"junction"}], MaxNodes)]

\* network?.nodes?.length is falsy for a missing list as for an empty one
NodeList(net) == IF net.hasNodes THEN net.nodes ELSE << >>

\* the earlier canvas map: padX = (maxX - minX) * 0.05 || 1
PadEarlier(span) == IF span * 5 = 0 THEN 100 ELSE span * 5

\* getBounds of the earlier canvas map, hundredths of a world unit
getBoundsEarlier(nodes) ==
    IF Len(nodes) = 0
    THEN [minX |-> 0, maxX |-> 100, minY |-> 0, maxY |-> 100]
    ELSE LET minX == MinOver(nodes, 1, "x")
             maxX == MaxOver(nodes, 1, "x")
             minY == MinOver(nodes, 1, "y")
             maxY == MaxOver(nodes, 1, "y")
             padX == PadEarlier(maxX - minX)
             padY == PadEarlier(maxY - minY)
         IN  [minX |-> 100 * minX - padX, maxX |-> 100 * maxX + padX,
              minY |-> 100 * minY - padY, maxY |-> 100 * maxY + padY]

(* JavaScript numbers beyond the integers the fixed-point model holds: a     *)
(* non-negative integer below 2^58 is the pair hi * 2^27 + lo.  A double     *)
(* keeps 53 significant bits; a result with more is rounded to the nearest  *)
(* double, ties to the even significand.                                    *)

Limb == 2^27

Dbl(hi, lo) == [hi |-> hi, lo |-> lo]

\* carries and borrows between the two limbs
Carry(v) ==
    IF v.lo >= Limb THEN Dbl(v.hi + 1, v.lo - Limb)
    ELSE IF v.lo < 0 THEN Dbl(v.hi - 1, v.lo + Limb)
    ELSE v

\* the spacing of the doubles at v: 1 below 2^53, doubling with each binade
RECURSIVE Ulp(_)
Ulp(hi) == IF hi < 2^26 THEN 1 ELSE 2 * Ulp(hi \div 2)

\* round to nearest, ties to even
Round53(v) ==
    LET u == Ulp(v.hi)
        r == v.lo % u
        down == Dbl(v.hi, v.lo - r)
        up == Carry(Dbl(v.hi, v.lo - r + u))
    IN  IF r = 0 THEN v
        ELSE IF 2 * r < u THEN down
        ELSE IF 2 * r > u THEN up
        ELSE IF ((v.lo - r) \div u) % 2 = 0 THEN down ELSE up

\* v + k and v - k for a small integer k, as the double operation returns them
DblAdd(v, k) == Round53(Carry(Dbl(v.hi, v.lo + k)))
DblSub(v, k) == Round53(Carry(Dbl(v.hi, v.lo - k)))

DblLess(a, b) == a.hi < b.hi \/ (a.hi = b.hi /\ a.lo < b.lo)

\* getBounds on a one-node list: the loop leaves min = max = the node's
\* coordinate, both spans are 0 and both paddings are 0 * 0.08 || 1 = 1
getBoundsOne(node) ==
    [minX |-> DblSub(node.x, 1), maxX |-> DblAdd(node.x, 1),
     minY |-> DblSub(node.y, 1), maxY |-> DblAdd(node.y, 1)]

\* coordinates of a single node: 5, 2^53 - 1, 2^53, 2^53 + 2, 2^54, 2^54 + 4
WideCoords ==
    { Dbl(0, 5), Dbl(2^26 - 1, Limb - 1), Dbl(2^26, 0), Dbl(2^26, 2), Dbl(Limb, 0), Dbl(Limb, 4) }

\* every variable of the page and of the map as first rendered
PageIdle ==
    /\ network = NoNet
    /\ loading = FALSE
    /\ error = NoError
    /\ inflight = {}
    /\ transform = Identity
    /\ shown = Identity
    /\ pending = 0
    /\ hoveredNode = NoNode
    /\ isDragging = FALSE
    /\ lastMouse = [x |-> 0, y |-> 0]
    /\ rect = FirstRect
    /\ canvas = Blank
    /\ gesture = NoGesture
    /\ lastMove = NoMove
    /\ scene = NoScene
    /\ figure = NoFigure
    /\ AppIdle

Returned(r) ==
    /\ result.fn # r.fn
    /\ result' = r
    /\ UNCHANGED <<call, dashVars, mapVars, histVars, layerVars, appVars>>

\* getBounds() of the canvas map
GetBounds ==
    /\ call.fn = "getBounds"
    /\ Returned([fn |-> "getBounds", bounds |-> getBounds(NodeList(call.net))])

\* getBounds() of the earlier canvas map
GetBoundsEarlier ==
    /\ call.fn = "getBounds"
    /\ Returned([fn |-> "getBoundsEarlier", bounds |-> getBoundsEarlier(NodeList(call.net))])

\* getBounds() of the canvas map on a network of one node
GetBoundsOne ==
    /\ call.fn = "getBoundsOne"
    /\ Returned([fn |-> "getBoundsOne", bounds |-> getBoundsOne(call.node)])

InitBounds ==
    /\ PageIdle
    /\ call \in [fn : {"getBounds"}, net : BoundsInputs]
               \cup [fn : {"getBoundsOne"}, node : [x : WideCoords, y : WideCoords]]
    /\ result = NoCall

NextBounds ==
    \/ GetBounds
    \/ GetBoundsEarlier
    \/ GetBoundsOne

SpecBounds == InitBounds /\ [][NextBounds]_vars

Least(S) == CHOOSE m \in S : \A n \in S : m <= n
Greatest(S) == CHOOSE m \in S : \A n \in S : n <= m

\* the extension of an axis, in hundredths: pct percent of the span, one unit for a zero span
Extension(span, pct) == IF span = 0 THEN 100 ELSE pct * span

\* min and max of each axis, each moved outwards by the extension of its axis
PaddedBox(nodes, pct) ==
    LET xs == {nodes[i].x : i \in 1..Len(nodes)}
        ys == {nodes[i].y : i \in 1..Len(nodes)}
        ex == Extension(Greatest(xs) - Least(xs), pct)
        ey == Extension(Greatest(ys) - Least(ys), pct)
    IN  [minX |-> 100 * Least(xs) - ex, maxX |-> 100 * Greatest(xs) + ex,
         minY |-> 100 * Least(ys) - ey, maxY |-> 100 * Greatest(ys) + ey]

UnitBox == [minX |-> 0, maxX |-> 100, minY |-> 0, maxY |-> 100]

BoundsAsSpecified(pct) ==
    IF call.net.hasNodes /\ Len(call.net.nodes) > 0
    THEN result.bounds = PaddedBox(call.net.nodes, pct)
    ELSE result.bounds = UnitBox

\* C14 as stated: in every canvas variant getBounds returns the per-axis min
\* and max extended by 8% of the span (1 unit for a zero span), and the unit
\* box for an empty or missing node list.
C14_BoundsPaddedEightPercentEverywhere ==
    result.fn \in {"getBounds", "getBoundsEarlier"} => BoundsAsSpecified(8)

\* C14 amended: that is what getBounds of the current canvas map returns; in
\* the earlier canvas map the extension is 5% of the span, with the same
\* 1 unit for a zero span and the same unit box.
C14_BoundsPaddedEightOrFivePercent ==
    /\ result.fn = "getBounds" => BoundsAsSpecified(8)
    /\ result.fn = "getBoundsEarlier" => BoundsAsSpecified(5)

\* two nodes sharing their x: 1 unit on the x axis, 8% of the span on the y axis
C14_Witness ==
    /\ result.fn = "getBounds"
    /\ call.net.hasNodes
    /\ Len(call.net.nodes) = 2
    /\ call.net.nodes[1].x = call.net.nodes[2].x
    /\ call.net.nodes[1].y # call.net.nodes[2].y
    /\ result.bounds.maxX - result.bounds.minX = 200
    /\ result.bounds.maxY - result.bounds.minY > 200

\* C15: for every node list (empty, missing, a single node, nodes sharing an
\* x or a y, any finite coordinates) getBounds returns maxX > minX and
\* maxY > minY, so that toCanvas divides by a non-zero width and height.
C15_BoundsNeverDegenerate ==
    /\ result.fn \in {"getBounds", "getBoundsEarlier"} =>
           /\ result.bounds.maxX > result.bounds.minX
           /\ result.bounds.maxY > result.bounds.minY
    /\ result.fn = "getBoundsOne" =>
           /\ DblLess(result.bounds.minX, result.bounds.maxX)
           /\ DblLess(result.bounds.minY, result.bounds.maxY)

----------------------------------------------------------------------------
(* Layer claims, continued *)

\* a network without nodes and links, and nothing to overlay on it
EmptyNetwork ==
    /\ scene.nodes = << >>
    /\ scene.links = << >>
    /\ scene.leaks = << >>
    /\ scene.predictions = << >>
    /\ scene.selectedLeaks = << >>
    /\ ~scene.simDone

Kinds == [i \in 1..Len(Data) |-> Data[i].kind]

----------------------------------------------------------------------------
(* Heatmap encoding: what each builder makes of the weight of a heatmap    *)
(* sample.  Weights and colour positions are in hundredths, marker sizes   *)
(* in hundredths of a pixel, opacities in ten-thousandths.                 *)

\* weights of the two samples encoded: 0.1, 0.5, 0.9 and the ends of [0,1],
\* and weights out of range on either side
Weights == {0 - 50, 0, 10, 50, 90, 100, 150}

\* mutant: the 3D marker shrinking with the weight, hSize.push(((1 - h.weight) * 25) + 8)
HeatSize3DInverted(w) == 25 * (100 - w) + 800

\* NetworkMap 3D and SandboxProcedural: hSize.push((h.weight * 25) + 8)
HeatSize3D(w) == 25 * w + 800

\* mutant: the 2D marker at its minimal size whatever the weight, size: 30
HeatSize2DFlat(w) == 30 * 100

\* NetworkMap 2D and the 2D SandboxProcedural: size: (h.weight * 120) + 30
HeatSize2D(w) == 120 * w + 3000

\* SandboxUniversal: size: (n.probability * 100) + 20
HeatSizeUniversal(w) == 100 * w + 2000

\* NetworkMap 3D and SandboxProcedural: marker.opacity 0.9, colour hColor.push(h.weight) on [cmin 0, cmax 1]
EncodeHeat3D(w) == [drawn |-> TRUE, size |-> HeatSize3D(w), opacity |-> 90 * 100, scaled |-> TRUE, color |-> w]

\* NetworkMap 2D: marker.opacity 0.8, colour [h.weight] on [cmin 0, cmax 1]
EncodeHeat2D(w) == [drawn |-> TRUE, size |-> HeatSize2D(w), opacity |-> 80 * 100, scaled |-> TRUE, color |-> w]

\* the 2D SandboxProcedural: color rgba(255, 71, 87, h.weight * 0.4)
EncodeHeatProcedural2D(w) == [drawn |-> TRUE, size |-> HeatSize2D(w), opacity |-> 40 * w, scaled |-> FALSE, color |-> 0]

\* SandboxUniversal: nodes with probability > 0.1 only, color rgba(255, 71, 87, n.probability * 0.5)
EncodeHeatUniversal(w) ==
    [drawn |-> IsSuspect([probability |-> w]), size |-> HeatSizeUniversal(w), opacity |-> 50 * w,
     scaled |-> FALSE, color |-> 0]

Encoded(site, a, b) == Returned([fn |-> site, a |-> a, b |-> b])

HeatPlotData3D ==
    /\ call.fn = "encode"
    /\ Encoded("plotData3D", EncodeHeat3D(call.w1), EncodeHeat3D(call.w2))

HeatPlotData2D ==
    /\ call.fn = "encode"
    /\ Encoded("plotData2D", EncodeHeat2D(call.w1), EncodeHeat2D(call.w2))

HeatFigDataProcedural ==
    /\ call.fn = "encode"
    /\ Encoded("buildFigDataProcedural", EncodeHeat3D(call.w1), EncodeHeat3D(call.w2))

HeatFigDataProcedural2D ==
    /\ call.fn = "encode"
    /\ Encoded("buildFigDataProcedural2D", EncodeHeatProcedural2D(call.w1), EncodeHeatProcedural2D(call.w2))

HeatFigDataUniversal ==
    /\ call.fn = "encode"
    /\ Encoded("buildFigDataUniversal", EncodeHeatUniversal(call.w1), EncodeHeatUniversal(call.w2))

InitHeat ==
    /\ PageIdle
    /\ call \in [fn : {"encode"}, w1 : Weights, w2 : Weights]
    /\ result = NoCall

NextHeat ==
    \/ HeatPlotData3D
    \/ HeatPlotData2D
    \/ HeatFigDataProcedural
    \/ HeatFigDataProcedural2D
    \/ HeatFigDataUniversal

SpecHeat == InitHeat /\ [][NextHeat]_vars

InUnit(w) == 0 <= w /\ w <= 100

\* two weights of [0,1], the first the smaller, both encoded by a builder
OrderedPair ==
    /\ result.fn # "none"
    /\ InUnit(call.w1) /\ InUnit(call.w2)
    /\ call.w1 < call.w2
    /\ result.a.drawn /\ result.b.drawn

\* C17: for weights w1 < w2 in [0,1] the marker size and the opacity encoded
\* for w1 are at most those encoded for w2, at every encoding call site.
C17_EncodingMonotone ==
    OrderedPair => (result.a.size <= result.b.size /\ result.a.opacity <= result.b.opacity)

\* weights 0.1 and 0.9 in the 3D map: a larger marker at the same opacity
C17_Witness ==
    /\ result.fn = "plotData3D"
    /\ call.w1 = 10 /\ call.w2 = 90
    /\ result.a.size < result.b.size
    /\ result.a.opacity = result.b.opacity

SizeAt(w) ==
    IF result.fn \in {"plotData3D", "buildFigDataProcedural"} THEN HeatSize3D(w)
    ELSE IF result.fn = "buildFigDataUniversal" THEN HeatSizeUniversal(w)
    ELSE HeatSize2D(w)

Saturated(enc) ==
    enc.drawn =>
        /\ SizeAt(0) <= enc.size /\ enc.size <= SizeAt(100)
        /\ 0 <= enc.color /\ enc.color <= 100

\* C19: whatever the input weight, in [0,1] or not, the encoded marker size
\* lies between the sizes of weight 0 and weight 1 and the colour position
\* within [0,1].
C19_WeightClampedBeforeEncoding ==
    result.fn # "none" => (Saturated(result.a) /\ Saturated(result.b))

----------------------------------------------------------------------------
(* Wheel zoom on a panned map *)

\* offsets earlier pans have left in the transform (pixels)
PanOffsets == {0 - 85, 0, 85}

\* world points looked at
WorldPoints == { [x |-> 3, y |-> 3], [x |-> 5, y |-> 5], [x |-> 7, y |-> 7] }

\* a mounted map, panned and zoomed, just rendered
InitPanned ==
    /\ network \in Files
    /\ loading = FALSE
    /\ error = NoError
    /\ inflight = {}
    /\ transform \in [x : PanOffsets, y : PanOffsets, scale : ScaleSamples]
    /\ shown = transform
    /\ pending = 0
    /\ hoveredNode = NoNode
    /\ isDragging = FALSE
    /\ lastMouse = [x |-> 0, y |-> 0]
    /\ rect = FirstRect
    /\ canvas = Draw(network, rect, transform)
    /\ gesture = NoGesture
    /\ lastMove = NoMove
    /\ scene = NoScene
    /\ figure = NoFigure
    /\ AppIdle
    /\ call = NoCall
    /\ result = NoCall

SpecWheelPanned == InitPanned /\ [][NextWheel]_vars

\* where the map shows the world point w under the transform tf
Project(w, tf) == toCanvas(w.x, w.y, getBounds(Nodes), rect.width, rect.height, tf)

ViewportCenter == [x |-> rect.width \div 2, y |-> rect.height \div 2]

\* C20: a wheel event leaves at the viewport center the world point that was
\* projected there before it, whatever the pan offset of the transform.
C20_WheelZoomsAboutViewportCenter ==
    [][\A d \in Deltas :
          HandleWheel(d) =>
              \A w \in WorldPoints :
                  Project(w, transform) = ViewportCenter => Project(w, transform') = ViewportCenter]_vars

----------------------------------------------------------------------------
(* toCanvas applied on its own *)

\* toCanvas of the earlier canvas map: s = Math.min(scaleX, scaleY) * 0.9
toCanvasEarlier(wx, wy, bounds, width, height, tf) ==
    LET bw == bounds.maxX - bounds.minX
        bh == bounds.maxY - bounds.minY
        xLess == width * bh <= height * bw
        sNum == IF xLess THEN 90 * width ELSE 90 * height
        sDen == IF xLess THEN bw ELSE bh
        qx == ((200 * wx - (bounds.minX + bounds.maxX)) * sNum) \div (2 * sDen)
        qy == ((200 * wy - (bounds.minY + bounds.maxY)) * sNum) \div (2 * sDen)
    IN  [x |-> (qx * tf.scale) \div 10000 + width \div 2 + tf.x,
         y |-> ((0 - qy) * tf.scale) \div 10000 + height \div 2 + tf.y]

\* world points projected
ProjectedPoints == [x : {0, 5, 7}, y : {0, 5, 7}]

\* transforms projected with
ProjectedTransforms ==
    [x : {0}, y : {0}, scale : ScaleSamples] \cup [x : {0 - 85}, y : {85}, scale : ScaleSamples]

ToCanvas ==
    /\ call.fn = "toCanvas"
    /\ Returned([fn |-> "toCanvas",
                 p |-> toCanvas(call.w.x, call.w.y, getBounds(call.nodes),
                                call.rc.width, call.rc.height, call.tf)])

ToCanvasEarlier ==
    /\ call.fn = "toCanvas"
    /\ Returned([fn |-> "toCanvasEarlier",
                 p |-> toCanvasEarlier(call.w.x, call.w.y, getBoundsEarlier(call.nodes),
                                       call.rc.width, call.rc.height, call.tf)])

InitProject ==
    /\ PageIdle
    /\ call \in [fn : {"toCanvas"},
                 nodes : SeqsUpTo([id : {"n"}, x : Coords, y : Coords, type : {"junction"}], MaxNodes),
                 w : ProjectedPoints, rc : Rects, tf : ProjectedTransforms]
    /\ result = NoCall

NextProject ==
    \/ ToCanvas
    \/ ToCanvasEarlier

SpecProject == InitProject /\ [][NextProject]_vars

\* m is the real number num / den cut to the pixel twice: m <= num / den < m + 2
CutOf(m, num, den) == m * den <= num /\ num < (m + 2) * den

\* The reference mapping with margin pct (85 for 0.85), on bounds b: the
\* uniform factor s = min(width / bw, height / bh) * pct / 100 is taken on the
\* axis with the smaller ratio; (w - mid) * s * scale is the exact fraction
\* num / den, positive to the right on x and upwards on y.
RefMapping(b, pct) ==
    LET bw == b.maxX - b.minX
        bh == b.maxY - b.minY
        side == IF call.rc.width * bh <= call.rc.height * bw THEN call.rc.width ELSE call.rc.height
        ext == IF call.rc.width * bh <= call.rc.height * bw THEN bw ELSE bh
        den == 2 * ext * 1000
        numX == (200 * call.w.x - (b.minX + b.maxX)) * ((pct * side) \div 10) * call.tf.scale
        numY == (0 - (200 * call.w.y - (b.minY + b.maxY))) * ((pct * side) \div 10) * call.tf.scale
    IN  /\ CutOf(result.p.x - call.rc.width \div 2 - call.tf.x, numX, den)
        /\ CutOf(result.p.y - call.rc.height \div 2 - call.tf.y, numY, den)

\* C21 as stated: toCanvas is the reference mapping with s = min(width /
\* boundsWidth, height / boundsHeight) * 0.85, the same factor on both axes
\* and y flipped, in every canvas variant of the map.
C21_ProjectionIsReferenceMapping ==
    /\ result.fn = "toCanvas" => RefMapping(getBounds(call.nodes), 85)
    /\ result.fn = "toCanvasEarlier" => RefMapping(getBoundsEarlier(call.nodes), 85)

\* C21 amended: toCanvas of the current canvas map is the reference mapping
\* with the margin factor 0.85, toCanvas of the earlier canvas map the same
\* mapping with the margin factor 0.9; in both, the identity transform maps
\* the midpoint of the bounds to the viewport center.
C21_ProjectionIsReferenceMappingPerVariant ==
    /\ result.fn = "toCanvas" => RefMapping(getBounds(call.nodes), 85)
    /\ result.fn = "toCanvasEarlier" => RefMapping(getBoundsEarlier(call.nodes), 90)
    /\ (/\ result.fn # "none"
        /\ call.tf = Identity
        /\ 200 * call.w.x = getBounds(call.nodes).minX + getBounds(call.nodes).maxX
        /\ 200 * call.w.y = getBounds(call.nodes).minY + getBounds(call.nodes).maxY)
           => result.p = [x |-> call.rc.width \div 2, y |-> call.rc.height \div 2]

\* a panned, zoomed projection of a point above and to the right of the
\* midpoint: it lands right of and above the panned center
C21_Witness ==
    /\ result.fn = "toCanvas"
    /\ call.tf = [x |-> 0 - 85, y |-> 85, scale |-> 130]
    /\ Len(call.nodes) = 2
    /\ call.nodes[1].x = 0 /\ call.nodes[1].y = 0
    /\ call.nodes[2].x = 10 /\ call.nodes[2].y = 10
    /\ call.w = [x |-> 7, y |-> 7]
    /\ result.p.x > call.rc.width \div 2 - 85
    /\ result.p.y < call.rc.height \div 2 + 85

----------------------------------------------------------------------------
(* Layer claims: visibility flags and heatmap points *)

ByNetworkMap == figure.by \in {"plotData3D", "plotData2D"}

IsBase(prim) == prim.kind \in {"link", "node"}

\* the link and node primitives of a figure, traces and layout shapes
BasePart(fig) == [data |-> SelectSeq(fig.data, IsBase), shapes |-> fig.shapes]

\* what the NetworkMap that built the figure builds with the flags set to g and p
WithFlags(g, p) ==
    IF figure.by = "plotData3D"
    THEN plotData3D([scene EXCEPT !.showGt = g, !.showPred = p])
    ELSE plotData2D([scene EXCEPT !.showGt = g, !.showPred = p])

\* C22: with showGt false the draw list of NetworkMap has no ground-truth
\* primitive, with showPred false it has no heatmap and no prediction-marker
\* primitive, and the link and node primitives are the same for every
\* setting of the two flags.
C22_FlagsHideOnlyTheirLayers ==
    ByNetworkMap =>
        /\ ~scene.showGt => ~Has("gt")
        /\ ~scene.showPred => (~Has("heat") /\ ~Has("pred") /\ ~Has("pillar"))
        /\ \A g, p \in BOOLEAN : BasePart(WithFlags(g, p)) = BasePart(figure)

\* ground truth given but hidden, the heatmap and the predictions shown
C22_Witness ==
    /\ figure.by = "plotData3D"
    /\ ~scene.showGt /\ Len(scene.leaks) > 0
    /\ scene.showPred
    /\ Has("heat") /\ Has("pred") /\ ~Has("gt")
    /\ Has("link") /\ Has("node")

----------------------------------------------------------------------------
(* Viewport claims: the wheel factor *)

\* C23: a wheel event multiplies the scale by 1.1 when the wheel delta is
\* negative and by 0.9 when it is not, then clamps to [0.1, 10]; it leaves
\* the offset and isDragging unchanged.
C23_WheelFactorBySignOfDelta ==
    [][\A d \in Deltas :
          HandleWheel(d) =>
              /\ transform'.scale = Clamp((transform.scale * (IF d < 0 THEN 11 ELSE 9)) \div 10)
              /\ transform'.x = transform.x
              /\ transform'.y = transform.y
              /\ isDragging' = isDragging]_vars

\* the heatmap points of the draw list, in order
HeatPoints ==
    Flatten([i \in 1..Len(Data) |-> IF Data[i].kind = "heat" THEN Data[i].items ELSE << >>])

\* the number of (prediction, sample) pairs of a list of predictions
RECURSIVE SampleCount(_)
SampleCount(preds) ==
    IF preds = << >> THEN 0
    ELSE (IF Head(preds).hasHeat THEN Len(Head(preds).heatmap) ELSE 0) + SampleCount(Tail(preds))

\* the number of heatmap points of the draw list that are sample k of prediction i
Occurrences(preds, i, k) == Cardinality({j \in 1..Len(HeatPoints) : HeatPoints[j] = preds[i].heatmap[k]})

\* one point per (prediction, sample) pair of preds, none dropped, none duplicated
OnePointPerSample(preds) ==
    /\ Len(HeatPoints) = SampleCount(preds)
    /\ \A i \in 1..Len(preds) :
           preds[i].hasHeat => \A k \in 1..Len(preds[i].heatmap) : Occurrences(preds, i, k) = 1

\* C24 as stated: with the predictions layer visible, the heatmap points of
\* NetworkMap are exactly one per (prediction, sample) pair of the
\* predictions input.
C24_OneHeatPointPerSample ==
    (ByNetworkMap /\ scene.showPred) => OnePointPerSample(scene.predictions)

\* C24 amended: they are exactly one per (prediction, sample) pair of the
\* predictions that carry gps_coordinates; the samples of a prediction
\* without gps_coordinates are not drawn.
C24_OneHeatPointPerSampleOfLocatedPredictions ==
    (ByNetworkMap /\ scene.showPred) => OnePointPerSample(SelectSeq(scene.predictions, HasGps))

\* a prediction without coordinates and one with two samples: two points
C24_Witness ==
    /\ figure.by = "plotData2D"
    /\ scene.showPred
    /\ scene.predictions = <<PredNoGps, PredHeat>>
    /\ Len(HeatPoints) = 2

\* every page as first rendered, no function applied
InitApp ==
    /\ PageIdle
    /\ call = NoCall
    /\ result = NoCall

----------------------------------------------------------------------------
(* Dashboard: overlapping uploads *)

\* C26: loading is true in every state in which an upload started by
\* handleUpload has not settled, and false once every upload has settled.
C26_LoadingWhileAnyUploadInFlight == loading <=> (inflight # {})

----------------------------------------------------------------------------
(* FileUploader *)

\* file names as sequences of characters
InpName == <<"n", ".", "i", "n", "p">>
TxtName == <<"n", ".", "t", "x", "t">>
BakName == <<".", "i", "n", "p", ".", "b">>
BareName == <<"i", "n", "p">>
FileNames == {InpName, TxtName, BakName, BareName}

\* the files of a drop or of a file selection: e.dataTransfer.files, e.target.files
FileLists == {<< >>} \cup {<< [name |-> n] >> : n \in FileNames}

MaxUploads == 3

\* String.prototype.endsWith
endsWith(str, suffix) ==
    /\ Len(suffix) <= Len(str)
    /\ SubSeq(str, Len(str) - Len(suffix) + 1, Len(str)) = suffix

\* onUpload(file)
onUpload(file) == onUploadCalls' = Append(onUploadCalls, file)

\* handleDrop: files[0] is passed on when its name ends with '.inp'
HandleDrop(files) ==
    /\ Len(onUploadCalls) < MaxUploads
    /\ dragOver' = FALSE
    /\ IF files # << >> /\ endsWith(files[1].name, <<".", "i", "n", "p">>)
       THEN onUpload(files[1])
       ELSE UNCHANGED onUploadCalls
    /\ UNCHANGED <<dashVars, mapVars, histVars, layerVars, callVars>>
    /\ UNCHANGED <<universalVars, paramVars, simVars, dispatchVars, authVars>>

\* handleDragOver
HandleDragOver ==
    /\ dragOver' = TRUE
    /\ UNCHANGED <<onUploadCalls, dashVars, mapVars, histVars, layerVars, callVars>>
    /\ UNCHANGED <<universalVars, paramVars, simVars, dispatchVars, authVars>>

\* handleDragLeave
HandleDragLeave ==
    /\ dragOver' = FALSE
    /\ UNCHANGED <<onUploadCalls, dashVars, mapVars, histVars, layerVars, callVars>>
    /\ UNCHANGED <<universalVars, paramVars, simVars, dispatchVars, authVars>>

\* handleFileSelect: files[0] is passed on whatever its name; accept=".inp" only
\* presets the filter of the file dialog, which the user can change
HandleFileSelect(files) ==
    /\ Len(onUploadCalls) < MaxUploads
    /\ IF files # << >>
       THEN onUpload(files[1])
       ELSE UNCHANGED onUploadCalls
    /\ UNCHANGED <<dragOver, dashVars, mapVars, histVars, layerVars, callVars>>
    /\ UNCHANGED <<universalVars, paramVars, simVars, dispatchVars, authVars>>

NextUploader ==
    \/ \E files \in FileLists : HandleDrop(files)
    \/ HandleDragOver
    \/ HandleDragLeave
    \/ \E files \in FileLists : HandleFileSelect(files)

SpecUploader == InitApp /\ [][NextUploader]_vars

\* C29: every file FileUploader passes to onUpload has a name ending in
\* '.inp', whether it was dropped or picked.
C29_OnlyInpFilesUploaded ==
    \A i \in 1..Len(onUploadCalls) : endsWith(onUploadCalls[i].name, <<".", "i", "n", "p">>)

----------------------------------------------------------------------------
(* SandboxUniversal: network selection, upload and detection *)

SAMPLE_NETWORKS == {"Net1.inp", "Net2.inp", "Net3.inp", "Anytown.inp", "Net6.inp"}

\* custom network files, under the file name the upload returns
CustomNetworks == {"city.inp", "town.inp"}

MaxDetect == 2

\* detectMutation.mutate(): the mutationFn of the latest render calls
\* detectZones(selectedNetwork) with the selectedNetwork of that render
mutate(uploaded) ==
    /\ detectCalls' = Append(detectCalls, [filename |-> mutationFn, uploaded |-> uploaded])
    /\ detectPending' = TRUE

\* the <select> of sample networks: setSelectedNetwork, then the render
SelectNetwork(n) ==
    /\ selectedNetwork' = n
    /\ mutationFn' = n
    /\ UNCHANGED <<uploading, uploadReq, detectPending, detectCalls>>
    /\ UNCHANGED <<dashVars, mapVars, histVars, layerVars, callVars>>
    /\ UNCHANGED <<uploaderVars, paramVars, simVars, dispatchVars, authVars>>

\* handleFileUpload up to the await; the input is disabled while uploading
HandleFileUpload(files) ==
    /\ ~uploading
    /\ IF files = << >>
       THEN UNCHANGED <<uploading, uploadReq>>
       ELSE /\ uploading' = TRUE
            /\ uploadReq' = files[1]
    /\ UNCHANGED <<selectedNetwork, mutationFn, detectPending, detectCalls>>
    /\ UNCHANGED <<dashVars, mapVars, histVars, layerVars, callVars>>
    /\ UNCHANGED <<uploaderVars, paramVars, simVars, dispatchVars, authVars>>

\* uploadNetwork resolves: setSelectedNetwork(res.filename), detectMutation.mutate(),
\* finally setUploading(false); the render of the new state follows the handler
UploadNetworkOk ==
    /\ uploadReq # NoFile
    /\ Len(detectCalls) < MaxDetect
    /\ selectedNetwork' = uploadReq
    /\ mutate(uploadReq)
    /\ uploading' = FALSE
    /\ uploadReq' = NoFile
    /\ mutationFn' = uploadReq
    /\ UNCHANGED <<dashVars, mapVars, histVars, layerVars, callVars>>
    /\ UNCHANGED <<uploaderVars, paramVars, simVars, dispatchVars, authVars>>

\* uploadNetwork throws: alert, finally setUploading(false)
UploadNetworkFail ==
    /\ uploadReq # NoFile
    /\ uploading' = FALSE
    /\ uploadReq' = NoFile
    /\ UNCHANGED <<selectedNetwork, mutationFn, detectPending, detectCalls>>
    /\ UNCHANGED <<dashVars, mapVars, histVars, layerVars, callVars>>
    /\ UNCHANGED <<uploaderVars, paramVars, simVars, dispatchVars, authVars>>

\* 'Detect Leak Zones', disabled while detection is pending or a file uploads
DetectButton ==
    /\ ~detectPending
    /\ ~uploading
    /\ Len(detectCalls) < MaxDetect
    /\ mutate(NoFile)
    /\ UNCHANGED <<selectedNetwork, uploading, mutationFn, uploadReq>>
    /\ UNCHANGED <<dashVars, mapVars, histVars, layerVars, callVars>>
    /\ UNCHANGED <<uploaderVars, paramVars, simVars, dispatchVars, authVars>>

\* detectZones settles
DetectSettled ==
    /\ detectPending
    /\ detectPending' = FALSE
    /\ UNCHANGED <<selectedNetwork, uploading, mutationFn, uploadReq, detectCalls>>
    /\ UNCHANGED <<dashVars, mapVars, histVars, layerVars, callVars>>
    /\ UNCHANGED <<uploaderVars, paramVars, simVars, dispatchVars, authVars>>

NextUniversal ==
    \/ \E n \in SAMPLE_NETWORKS : SelectNetwork(n)
    \/ \E files \in {<< >>} \cup {<< f >> : f \in CustomNetworks} : HandleFileUpload(files)
    \/ UploadNetworkOk
    \/ UploadNetworkFail
    \/ DetectButton
    \/ DetectSettled

SpecUniversal == InitApp /\ [][NextUniversal]_vars

\* C25: the detection handleFileUpload starts after a successful upload
\* runs on the uploaded file, not on the network selected before.
C25_AutoDetectionRunsOnUploadedFile ==
    \A i \in 1..Len(detectCalls) :
        detectCalls[i].uploaded # NoFile => detectCalls[i].filename = detectCalls[i].uploaded

----------------------------------------------------------------------------
(* SandboxProcedural: parameters, leak selection and simulation *)

\* the positions of the sliders and of the selects that the model visits
RowChoices == {3, 6}
ColChoices == {3, 8}
SensorChoices == {2, 5}
DensityChoices == {3, 5}
RealSensorChoices == {2, 8}
SampleFiles == {"Net1.inp", "Net3.inp"}

\* the pipe buttons the model presses
LeakChoices == {1, 13}

\* the query key of the network displayed: proceduralQuery or realQuery by mode
NetKey ==
    IF mode = "procedural"
    THEN <<"sandbox", rows, cols, nSensors, density>>
    ELSE <<"sandbox-inp", selectedFile, realSensors>>

\* the pipe ids of the network a query returns: a grid has one pipe per pair
\* of adjacent nodes, a network file its own
PipesOf(key) ==
    IF key[1] = "sandbox"
    THEN 1..(key[2] * (key[3] - 1) + key[3] * (key[2] - 1))
    ELSE IF key[2] = "Net1.inp" THEN 1..12 ELSE 1..20

\* prev.includes(pid) ? prev.filter(p => p !== pid) : [...prev, pid]
Toggled(prev, pid) ==
    IF InSeq(pid, prev)
    THEN SelectSeq(prev, LAMBDA p : p # pid)
    ELSE Append(prev, pid)

\* simMutation.reset(): back to idle, the result of a pending request is dropped
reset == simMutation' = IdleMutation

\* toggleLeak, from a pipe button of the network displayed
toggleLeak(pid) ==
    /\ pid \in PipesOf(NetKey)
    /\ selectedLeaks' = Toggled(selectedLeaks, pid)
    /\ reset
    /\ UNCHANGED <<paramVars, procUploading, procUploadReq>>
    /\ UNCHANGED <<dashVars, mapVars, histVars, layerVars, callVars>>
    /\ UNCHANGED <<uploaderVars, universalVars, dispatchVars, authVars>>

\* switchMode
switchMode(newMode) ==
    /\ mode' = newMode
    /\ selectedLeaks' = << >>
    /\ reset
    /\ UNCHANGED <<rows, cols, nSensors, density, selectedFile, realSensors, procUploading, procUploadReq>>
    /\ UNCHANGED <<dashVars, mapVars, histVars, layerVars, callVars>>
    /\ UNCHANGED <<uploaderVars, universalVars, dispatchVars, authVars>>

\* the sliders of the procedural panel: setRows, setCols, setNSensors, setDensity
SetRows(v) ==
    /\ mode = "procedural"
    /\ rows' = v
    /\ UNCHANGED <<mode, cols, nSensors, density, selectedFile, realSensors, simVars>>
    /\ UNCHANGED <<dashVars, mapVars, histVars, layerVars, callVars>>
    /\ UNCHANGED <<uploaderVars, universalVars, dispatchVars, authVars>>

SetCols(v) ==
    /\ mode = "procedural"
    /\ cols' = v
    /\ UNCHANGED <<mode, rows, nSensors, density, selectedFile, realSensors, simVars>>
    /\ UNCHANGED <<dashVars, mapVars, histVars, layerVars, callVars>>
    /\ UNCHANGED <<uploaderVars, universalVars, dispatchVars, authVars>>

SetNSensors(v) ==
    /\ mode = "procedural"
    /\ nSensors' = v
    /\ UNCHANGED <<mode, rows, cols, density, selectedFile, realSensors, simVars>>
    /\ UNCHANGED <<dashVars, mapVars, histVars, layerVars, callVars>>
    /\ UNCHANGED <<uploaderVars, universalVars, dispatchVars, authVars>>

SetDensity(v) ==
    /\ mode = "procedural"
    /\ density' = v
    /\ UNCHANGED <<mode, rows, cols, nSensors, selectedFile, realSensors, simVars>>
    /\ UNCHANGED <<dashVars, mapVars, histVars, layerVars, callVars>>
    /\ UNCHANGED <<uploaderVars, universalVars, dispatchVars, authVars>>

\* the <select> of sample files: setSelectedFile, setSelectedLeaks([]), simMutation.reset()
SelectFile(f) ==
    /\ mode = "real"
    /\ selectedFile' = f
    /\ selectedLeaks' = << >>
    /\ reset
    /\ UNCHANGED <<mode, rows, cols, nSensors, density, realSensors, procUploading, procUploadReq>>
    /\ UNCHANGED <<dashVars, mapVars, histVars, layerVars, callVars>>
    /\ UNCHANGED <<uploaderVars, universalVars, dispatchVars, authVars>>

\* the sensors slider of the real panel: setRealSensors
SetRealSensors(v) ==
    /\ mode = "real"
    /\ realSensors' = v
    /\ UNCHANGED <<mode, rows, cols, nSensors, density, selectedFile, simVars>>
    /\ UNCHANGED <<dashVars, mapVars, histVars, layerVars, callVars>>
    /\ UNCHANGED <<uploaderVars, universalVars, dispatchVars, authVars>>

\* handleFileUpload up to the await; the input is in the real panel, disabled while uploading
HandleFileUploadProcedural(file) ==
    /\ mode = "real"
    /\ ~procUploading
    /\ procUploading' = TRUE
    /\ procUploadReq' = file
    /\ UNCHANGED <<paramVars, selectedLeaks, simMutation>>
    /\ UNCHANGED <<dashVars, mapVars, histVars, layerVars, callVars>>
    /\ UNCHANGED <<uploaderVars, universalVars, dispatchVars, authVars>>

\* uploadNetwork resolves: setSelectedFile, setMode('real'), setSelectedLeaks([]), reset
ProceduralUploadOk ==
    /\ procUploadReq # NoFile
    /\ selectedFile' = procUploadReq
    /\ mode' = "real"
    /\ selectedLeaks' = << >>
    /\ reset
    /\ procUploading' = FALSE
    /\ procUploadReq' = NoFile
    /\ UNCHANGED <<rows, cols, nSensors, density, realSensors>>
    /\ UNCHANGED <<dashVars, mapVars, histVars, layerVars, callVars>>
    /\ UNCHANGED <<uploaderVars, universalVars, dispatchVars, authVars>>

\* uploadNetwork throws: alert, finally setUploading(false)
ProceduralUploadFail ==
    /\ procUploadReq # NoFile
    /\ procUploading' = FALSE
    /\ procUploadReq' = NoFile
    /\ UNCHANGED <<paramVars, selectedLeaks, simMutation>>
    /\ UNCHANGED <<dashVars, mapVars, histVars, layerVars, callVars>>
    /\ UNCHANGED <<uploaderVars, universalVars, dispatchVars, authVars>>

\* 'Run Detection': simMutation.mutate() posts the leaks and the parameters
\* of the render; disabled without leaks and while pending
RunDetection ==
    /\ selectedLeaks # << >>
    /\ simMutation.status # "pending"
    /\ simMutation' = [status |-> "pending",
                       variables |-> [leak_pipes |-> selectedLeaks, key |-> NetKey],
                       data |-> "undefined"]
    /\ UNCHANGED <<paramVars, procUploading, procUploadReq, selectedLeaks>>
    /\ UNCHANGED <<dashVars, mapVars, histVars, layerVars, callVars>>
    /\ UNCHANGED <<uploaderVars, universalVars, dispatchVars, authVars>>

\* simulateSandbox resolves with the result for the leaks and network posted
SimulationDone ==
    /\ simMutation.status = "pending"
    /\ simMutation' = [simMutation EXCEPT !.status = "success", !.data = simMutation.variables]
    /\ UNCHANGED <<paramVars, procUploading, procUploadReq, selectedLeaks>>
    /\ UNCHANGED <<dashVars, mapVars, histVars, layerVars, callVars>>
    /\ UNCHANGED <<uploaderVars, universalVars, dispatchVars, authVars>>

NextProcedural ==
    \/ \E pid \in LeakChoices : toggleLeak(pid)
    \/ \E m \in {"procedural", "real"} : switchMode(m)
    \/ \E v \in RowChoices : SetRows(v)
    \/ \E v \in ColChoices : SetCols(v)
    \/ \E v \in SensorChoices : SetNSensors(v)
    \/ \E v \in DensityChoices : SetDensity(v)
    \/ \E f \in SampleFiles : SelectFile(f)
    \/ \E v \in RealSensorChoices : SetRealSensors(v)
    \/ \E f \in CustomNetworks : HandleFileUploadProcedural(f)
    \/ ProceduralUploadOk
    \/ ProceduralUploadFail
    \/ RunDetection
    \/ SimulationDone

SpecProcedural == InitApp /\ [][NextProcedural]_vars

\* C27: results on display were computed for the leak set selected and the
\* network displayed, and every selected leak is a pipe of that network.
C27_ResultsMatchSelectionAndNetwork ==
    /\ simMutation.status = "success" =>
           /\ simMutation.data.leak_pipes = selectedLeaks
           /\ simMutation.data.key = NetKey
    /\ \A i \in 1..Len(selectedLeaks) : selectedLeaks[i] \in PipesOf(NetKey)

----------------------------------------------------------------------------
(* AuthProvider, the routes and the login form *)

\* what the login form submits, as sequences of characters
Emails == { << >>, <<"a", "@", "x">>, <<"b", "@", "x">>, <<"a", "@", "y">>, <<"a", "@", "@">>,
            <<"a">>, <<"@", "x">> }
Passwords == { << >>, <<"p">> }

MaxLogins == 6

\* email.split('@')[0]
RECURSIVE BeforeAt(_)
BeforeAt(str) ==
    IF str = << >> \/ Head(str) = "@" THEN << >> ELSE << Head(str) >> \o BeforeAt(Tail(str))

\* JSON.stringify(userData): the members in order, and JSON.parse of it
Stringify(u) == << <<"email", u.email>>, <<"name", u.name>>, <<"loggedInAt", u.loggedInAt>> >>
Parse(text) == [email |-> text[1][2], name |-> text[2][2], loggedInAt |-> text[3][2]]

\* the useState initializer: the stored user, or null
StoredUser == IF localStorage = NoItem THEN NoUser ELSE << Parse(localStorage[1]) >>

\* isAuthenticated: !!user
isAuthenticated == user # NoUser

\* AppRoutes / ProtectedRoute: where a location ends up for a user
Routed(path, u) ==
    IF path = "/login"
    THEN (IF u # NoUser THEN "/" ELSE "/login")
    ELSE (IF u # NoUser THEN "/" ELSE "/login")

\* the page on display
Page == IF route = "/" THEN "Dashboard" ELSE "Login"

\* mutant: the user is set without the item being stored
loginWithoutItem(email, password) ==
    IF email = << >> \/ password = << >>
    THEN /\ loginResult' = [success |-> FALSE, error |-> "Email and password are required"]
         /\ UNCHANGED <<user, localStorage, route, clock>>
    ELSE LET userData == [email |-> email, name |-> BeforeAt(email), loggedInAt |-> clock]
         IN  /\ clock < MaxLogins
             /\ user' = << userData >>
             /\ loginResult' = [success |-> TRUE, error |-> "undefined"]
             /\ route' = Routed(route, << userData >>)
             /\ clock' = clock + 1
             /\ UNCHANGED localStorage

\* login(email, password), then the render and its redirect
login(email, password) ==
    IF email = << >> \/ password = << >>
    THEN /\ loginResult' = [success |-> FALSE, error |-> "Email and password are required"]
         /\ UNCHANGED <<user, localStorage, route, clock>>
    ELSE LET userData == [email |-> email, name |-> BeforeAt(email), loggedInAt |-> clock]
         IN  /\ clock < MaxLogins
             /\ localStorage' = << Stringify(userData) >>
             /\ user' = << userData >>
             /\ loginResult' = [success |-> TRUE, error |-> "undefined"]
             /\ route' = Routed(route, << userData >>)
             /\ clock' = clock + 1

\* Login.handleSubmit
HandleSubmit(email, password) ==
    /\ login(email, password)
    /\ UNCHANGED <<dashVars, mapVars, histVars, layerVars, callVars>>
    /\ UNCHANGED <<uploaderVars, universalVars, paramVars, simVars, dispatchVars>>

\* logout(), then the render and its redirect
logout ==
    /\ localStorage' = NoItem
    /\ user' = NoUser
    /\ route' = Routed(route, NoUser)
    /\ UNCHANGED <<loginResult, clock>>

Logout ==
    /\ logout
    /\ UNCHANGED <<dashVars, mapVars, histVars, layerVars, callVars>>
    /\ UNCHANGED <<uploaderVars, universalVars, paramVars, simVars, dispatchVars>>

\* the page is loaded again at a location: AuthProvider mounts and reads the storage
Reload(path) ==
    /\ user' = StoredUser
    /\ route' = Routed(path, StoredUser)
    /\ loginResult' = NoResult
    /\ UNCHANGED <<localStorage, clock>>
    /\ UNCHANGED <<dashVars, mapVars, histVars, layerVars, callVars>>
    /\ UNCHANGED <<uploaderVars, universalVars, paramVars, simVars, dispatchVars>>

NextAuth ==
    \/ \E e \in Emails, p \in Passwords : HandleSubmit(e, p)
    \/ Logout
    \/ \E path \in {"/", "/login"} : Reload(path)

SpecAuth == InitApp /\ [][NextAuth]_vars

\* C28: isAuthenticated is true iff localStorage holds the user and the user
\* in memory equals the stored one; a login with an empty email or an empty
\* password fails with an error and changes neither; the Dashboard is
\* rendered only while isAuthenticated is true.
C28_AuthStateMatchesStorage ==
    /\ [](isAuthenticated <=> (localStorage # NoItem /\ user = StoredUser))
    /\ [](Page = "Dashboard" => isAuthenticated)
    /\ [][\A e \in Emails, p \in Passwords :
              (HandleSubmit(e, p) /\ (e = << >> \/ p = << >>)) =>
                  /\ loginResult'.success = FALSE
                  /\ loginResult'.error = "Email and password are required"
                  /\ user' = user
                  /\ localStorage' = localStorage]_vars

\* a rejected login while a user is logged in and the Dashboard on display
C28_Witness ==
    /\ isAuthenticated
    /\ localStorage # NoItem
    /\ Page = "Dashboard"
    /\ loginResult.success = FALSE
    /\ loginResult.error = "Email and password are required"

----------------------------------------------------------------------------
(* SandboxProcedural: voice dispatch *)

MaxDispatch == 2

\* setDispatching(prev => ({ ...prev, [nodeId]: v }))
setDispatching(nodeId, v) == dispatching' = [dispatching EXCEPT ![nodeId] = v]

\* handleDispatch up to the await of dispatchAudio; the button of the target
\* is disabled while dispatching[target]
handleDispatch(nodeId) ==
    /\ ~dispatching[nodeId]
    /\ audio[nodeId].n < MaxDispatch
    /\ setDispatching(nodeId, TRUE)
    /\ audio' = [audio EXCEPT ![nodeId] = [phase |-> "request", n |-> @.n + 1]]
    /\ UNCHANGED <<dashVars, mapVars, histVars, layerVars, callVars>>
    /\ UNCHANGED <<uploaderVars, universalVars, paramVars, simVars, authVars>>

\* dispatchAudio throws (the fetch rejects or the response is not ok): catch
DispatchFailed(nodeId) ==
    /\ audio[nodeId].phase = "request"
    /\ setDispatching(nodeId, FALSE)
    /\ audio' = [audio EXCEPT ![nodeId].phase = "none"]
    /\ UNCHANGED <<dashVars, mapVars, histVars, layerVars, callVars>>
    /\ UNCHANGED <<uploaderVars, universalVars, paramVars, simVars, authVars>>

\* dispatchAudio resolves: new Audio(audioUrl), onended and onerror set, audio.play()
DispatchPlays(nodeId) ==
    /\ audio[nodeId].phase = "request"
    /\ audio' = [audio EXCEPT ![nodeId].phase = "playing"]
    /\ UNCHANGED <<dispatching, dashVars, mapVars, histVars, layerVars, callVars>>
    /\ UNCHANGED <<uploaderVars, universalVars, paramVars, simVars, authVars>>

\* audio.play() rejects: catch
PlayRejected(nodeId) ==
    /\ audio[nodeId].phase = "playing"
    /\ setDispatching(nodeId, FALSE)
    /\ audio' = [audio EXCEPT ![nodeId].phase = "none"]
    /\ UNCHANGED <<dashVars, mapVars, histVars, layerVars, callVars>>
    /\ UNCHANGED <<uploaderVars, universalVars, paramVars, simVars, authVars>>

\* audio.onended
AudioEnded(nodeId) ==
    /\ audio[nodeId].phase = "playing"
    /\ setDispatching(nodeId, FALSE)
    /\ audio' = [audio EXCEPT ![nodeId].phase = "none"]
    /\ UNCHANGED <<dashVars, mapVars, histVars, layerVars, callVars>>
    /\ UNCHANGED <<uploaderVars, universalVars, paramVars, simVars, authVars>>

\* mutant: the error handler leaves the flag set
AudioErrorKeepsFlag(nodeId) ==
    /\ audio[nodeId].phase = "playing"
    /\ audio' = [audio EXCEPT ![nodeId].phase = "none"]
    /\ UNCHANGED <<dispatching, dashVars, mapVars, histVars, layerVars, callVars>>
    /\ UNCHANGED <<uploaderVars, universalVars, paramVars, simVars, authVars>>

\* audio.onerror, with the rejection of play() that comes with it
AudioError(nodeId) ==
    /\ audio[nodeId].phase = "playing"
    /\ setDispatching(nodeId, FALSE)
    /\ audio' = [audio EXCEPT ![nodeId].phase = "none"]
    /\ UNCHANGED <<dashVars, mapVars, histVars, layerVars, callVars>>
    /\ UNCHANGED <<uploaderVars, universalVars, paramVars, simVars, authVars>>

NextDispatch ==
    \/ \E t \in Targets : handleDispatch(t)
    \/ \E t \in Targets : DispatchFailed(t)
    \/ \E t \in Targets : DispatchPlays(t)
    \/ \E t \in Targets : PlayRejected(t)
    \/ \E t \in Targets : AudioEnded(t)
    \/ \E t \in Targets : AudioError(t)

\* every request settles and every playback ends, fails or is refused
SpecDispatch ==
    /\ InitApp
    /\ [][NextDispatch]_vars
    /\ \A t \in Targets : WF_vars(DispatchFailed(t) \/ DispatchPlays(t))
    /\ \A t \in Targets : WF_vars(PlayRejected(t) \/ AudioEnded(t) \/ AudioError(t))

\* C30: every dispatch started for a target eventually sets
\* dispatching[target] back to false, and no dispatch is started for a
\* target while dispatching[target] is true.
C30_DispatchEndsAndIsExclusive ==
    /\ \A t \in Targets : (dispatching[t] ~> ~dispatching[t])
    /\ [][\A t \in Targets : audio'[t].n > audio[t].n => (~dispatching[t] /\ dispatching'[t])]_vars

\* one dispatch over, a second one of the same target playing, another requested
C30_Witness ==
    /\ audio["J1"] = [phase |-> "playing", n |-> 2]
    /\ dispatching["J1"]
    /\ audio["J2"].phase = "request"
    /\ audio["J3"] = [phase |-> "none", n |-> 1]
    /\ ~dispatching["J3"]

====
